---- MODULE Spec2Model ----
(***************************************************************************)
(* A model of rdiff-backup's metadata store (rdiff_backup/metadata.py):    *)
(* path quoting, the record codec, the flat-file extractor, the flat-file  *)
(* writer, the combined writer, the manager and the patch merge.           *)
(*                                                                         *)
(* Python strings are modelled as sequences of one-character strings, so   *)
(* that regular-expression searches, slices and block reads act on         *)
(* characters as they do in the code.                                      *)
(***************************************************************************)
EXTENDS Integers, Sequences, FiniteSets, TLC

VARIABLES
    \* ---- path quoting (quote_path / unquote_path) ----
    path_string,      \* the string given to quote_path
    quoted_string,    \* quote_path(path_string), once computed
    unquoted_string,  \* unquote_path(quoted_string), once computed
    qpc,              \* "start" -> "quoted" -> "unquoted"
    \* ---- Globals ----
    preserve_hardlinks,  \* Globals.preserve_hardlinks
    \* ---- record codec (RORP2Record / Record2RORP) ----
    rorp,             \* the object given to RORP2Record
    record,           \* RORP2Record(rorp), once computed
    decoded,          \* Record2RORP(record), once computed
    cpc,              \* "start" -> "encoded" -> "decoded"
    \* ---- one flat file: its writer, the file, its reader ----
    flatfile,         \* [w |-> the FlatFile opened 'w', d |-> its file]
    written,          \* the objects given to write_object, in order
    extractor,        \* the FlatExtractor of the FlatFile opened 'r'
    gen,              \* the generator get_objects returned
    yielded,          \* the objects it yielded, in order
    \* ---- patch ----
    meta_iters,       \* the arguments of patch: sequences of objects
    collated,         \* the tuples CollateIterators has still to yield
    patched,          \* the objects patch yielded, in order
    ppc,              \* "start" -> "yielded"* -> "done" | "raised"
    \* ---- Manager writers and CombinedWriter ----
    eas_active,       \* Globals.eas_active
    acls_active,      \* Globals.acls_active
    rbdir,            \* the files of Globals.rbdir, by name
    writer,           \* what the call that creates writers returned
    wcall,            \* that call, and the log paths it is to create
    wexc,             \* the exception it raised, "" for none
    submitted,        \* the objects given to write_object, in order
    wpc,              \* "start" -> "open" -> "closed", or "raised"
    \* ---- Manager lookups ----
    manager,          \* the Manager: [rplist, timerpmap]
    built,            \* the names in Globals.rbdir when it was built
    lookup,           \* the last lookup: [op, time]
    found,            \* what it returned
    \* ---- close() of one flat file writer ----
    close_exc,        \* the exception the last close() raised, "" for none
    closes,           \* the number of calls of close()
    \* ---- logs with bad records ----
    bad_records       \* the places, in written, of the records made bad

quote_vars == <<path_string, quoted_string, unquoted_string, qpc>>
codec_vars == <<rorp, record, decoded, cpc>>

log_vars == <<flatfile, written, extractor, gen, yielded>>

patch_vars == <<meta_iters, collated, patched, ppc>>

manager_vars == <<eas_active, acls_active, rbdir, writer, wcall, wexc, submitted, wpc>>

lookup_vars == <<manager, built, lookup, found>>

close_vars == <<close_exc, closes>>

vars == <<quote_vars, preserve_hardlinks, codec_vars, log_vars, patch_vars, manager_vars,
          lookup_vars, close_vars, bad_records>>

(***************************************************************************)
(* Strings                                                                 *)
(***************************************************************************)
LF == "\n"
BS == "\\"

\* A TLA+ string literal as a sequence of characters.
Chars(s) == [i \in 1..Len(s) |-> SubSeq(s, i, i)]

\* F(x), F(x, y), F(x, y, z) with the arguments evaluated before the call, as
\* Python evaluates them.
Call1(F(_), x) == CHOOSE r \in {F(v) : v \in {x}} : TRUE
Call2(F(_, _), x, y) == CHOOSE r \in {F(v, w) : v \in {x}, w \in {y}} : TRUE
Call3(F(_, _, _), x, y, z) == CHOOSE r \in {F(u, v, w) : u \in {x}, v \in {y}, w \in {z}} : TRUE
Call5(F(_, _, _, _, _), x, y, z, t, q) ==
    CHOOSE r \in {F(u, v, w, a, b) : u \in {x}, v \in {y}, w \in {z}, a \in {t}, b \in {q}} : TRUE

\* Python's None, a value no character string is equal to.
None == <<"<None>">>

RECURSIVE Concat(_)
\* "".join(list)
Concat(list) == IF list = <<>> THEN <<>> ELSE Head(list) \o Concat(Tail(list))

\* All sequences over S of length at most n.
SeqsUpTo(S, n) == UNION {[1..k -> S] : k \in 0..n}

(***************************************************************************)
(* quote_path / unquote_path                                               *)
(***************************************************************************)
\* replacement_func of quote_path, applied to each character the pattern
\* chars_to_quote ("\n" or "\\") matches; other characters are kept.
quote_char(char) ==
    IF char = LF THEN <<BS, "n">>
    ELSE IF char = BS THEN <<BS, BS>>
    ELSE <<char>>

\* A quote_path that leaves the path as it is.
quote_path_raw(s) == s

RECURSIVE quote_path(_)
quote_path(s) ==
    IF s = <<>> THEN <<>> ELSE quote_char(Head(s)) \o quote_path(Tail(s))

RECURSIVE unquote_twopass_bs(_)
unquote_twopass_bs(s) ==
    IF Len(s) >= 2 /\ s[1] = BS /\ s[2] = BS
    THEN <<BS>> \o unquote_twopass_bs(SubSeq(s, 3, Len(s)))
    ELSE IF s = <<>> THEN <<>>
    ELSE <<Head(s)>> \o unquote_twopass_bs(Tail(s))

RECURSIVE unquote_twopass_lf(_)
unquote_twopass_lf(s) ==
    IF Len(s) >= 2 /\ s[1] = BS /\ s[2] = "n"
    THEN <<LF>> \o unquote_twopass_lf(SubSeq(s, 3, Len(s)))
    ELSE IF s = <<>> THEN <<>>
    ELSE <<Head(s)>> \o unquote_twopass_lf(Tail(s))

\* A faulty unquote: two replace passes, backslash-n first, instead of one
\* left-to-right scan.
unquote_twopass(s) == unquote_twopass_bs(unquote_twopass_lf(s))

RECURSIVE unquote_path(_)
\* re.sub("\\\\n|\\\\\\\\", replacement_func, quoted_string): one scan from
\* the left; at each position the two-character sequences backslash-n and
\* backslash-backslash are replaced and skipped, any other character copied.
unquote_path(s) ==
    IF Len(s) >= 2 /\ s[1] = BS /\ s[2] = "n"
    THEN <<LF>> \o unquote_path(SubSeq(s, 3, Len(s)))
    ELSE IF Len(s) >= 2 /\ s[1] = BS /\ s[2] = BS
    THEN <<BS>> \o unquote_path(SubSeq(s, 3, Len(s)))
    ELSE IF s = <<>> THEN <<>>
    ELSE <<Head(s)>> \o unquote_path(Tail(s))

(***************************************************************************)
(* Numbers and bytes as text                                               *)
(***************************************************************************)
Digits == Chars("0123456789")
HexDigits == Chars("0123456789abcdef")
Letters == Chars("ABCDEFGHIJKLMNOPQRSTUVWXYZabcdefghijklmnopqrstuvwxyz")

Range(f) == {f[i] : i \in DOMAIN f}
IndexOf(seq, x) == CHOOSE i \in DOMAIN seq : seq[i] = x

RECURSIVE IntToStr(_)
\* "%s" % n for a non-negative integer: its decimal digits.
IntToStr(n) ==
    IF n < 10 THEN <<Digits[n + 1]>>
    ELSE IntToStr(n \div 10) \o <<Digits[(n % 10) + 1]>>

IsNumeral(s) == s # <<>> /\ \A i \in DOMAIN s : s[i] \in Range(Digits)

RECURSIVE StrToInt(_)
\* int(s) / long(s) of a string of decimal digits.
StrToInt(s) ==
    IF s = <<>> THEN 0
    ELSE 10 * StrToInt(SubSeq(s, 1, Len(s) - 1)) + (IndexOf(Digits, s[Len(s)]) - 1)

\* The byte values the model's binary fields are made of, with their codes.
ByteCode == [b \in {"a", "z", LF} |->
                IF b = "a" THEN 97 ELSE IF b = "z" THEN 122 ELSE 10]

RECURSIVE hexlify(_)
\* binascii.hexlify: two lower-case hexadecimal digits for each byte.
hexlify(bytes) ==
    IF bytes = <<>> THEN <<>>
    ELSE <<HexDigits[(ByteCode[Head(bytes)] \div 16) + 1],
           HexDigits[(ByteCode[Head(bytes)] % 16) + 1]>> \o hexlify(Tail(bytes))

IsHex(s) == Len(s) % 2 = 0 /\ \A i \in DOMAIN s : s[i] \in Range(HexDigits)

ByteOfCode(c) == CHOOSE b \in DOMAIN ByteCode : ByteCode[b] = c

RECURSIVE unhexlify(_)
\* binascii.unhexlify of an even number of hexadecimal digits.
unhexlify(s) ==
    IF s = <<>> THEN <<>>
    ELSE <<ByteOfCode(16 * (IndexOf(HexDigits, s[1]) - 1) + (IndexOf(HexDigits, s[2]) - 1))>>
         \o unhexlify(SubSeq(s, 3, Len(s)))

\* s.split(sep) for a one-character separator: the pieces of s between the
\* places of sep, seps[k] the k-th of them.
Split(s, sep) ==
    LET places == {i \in DOMAIN s : s[i] = sep}
        seps == [k \in 1..Cardinality(places) |->
                    CHOOSE i \in places : Cardinality({j \in places : j <= i}) = k]
    IN  [k \in 1..(Len(seps) + 1) |->
            SubSeq(s, IF k = 1 THEN 1 ELSE seps[k - 1] + 1,
                      IF k = Len(seps) + 1 THEN Len(s) ELSE seps[k] - 1)]

RECURSIVE Join(_, _)
\* sep.join(list)
Join(list, sep) ==
    IF list = <<>> THEN <<>>
    ELSE IF Len(list) = 1 THEN list[1]
    ELSE list[1] \o sep \o Join(Tail(list), sep)

(***************************************************************************)
(* Carbon-file codec.  A CarbonFile dictionary is the tuple                *)
(* <<creator, type, location, flags>>, location a pair of integers.        *)
(***************************************************************************)
carbonfile2string(cfile) ==
    Join(<< Chars("creator:") \o hexlify(cfile[1]),
            Chars("type:") \o hexlify(cfile[2]),
            Chars("location:") \o IntToStr(cfile[3][1]) \o <<",">> \o IntToStr(cfile[3][2]),
            Chars("flags:") \o IntToStr(cfile[4]) >>, <<"|">>)

RECURSIVE carbon_components(_, _)
carbon_components(comps, retval) ==
    IF comps = <<>> THEN retval
    ELSE LET kv == Split(Head(comps), ":")
             key == kv[1]
             value == kv[2]
             next ==
                 IF key = Chars("creator") THEN [retval EXCEPT ![1] = unhexlify(value)]
                 ELSE IF key = Chars("type") THEN [retval EXCEPT ![2] = unhexlify(value)]
                 ELSE IF key = Chars("location")
                      THEN [retval EXCEPT ![3] = <<StrToInt(Split(value, ",")[1]),
                                                   StrToInt(Split(value, ",")[2])>>]
                 ELSE IF key = Chars("flags") THEN [retval EXCEPT ![4] = StrToInt(value)]
                 ELSE retval
         IN  carbon_components(Tail(comps), next)

\* string2carbonfile: the components in any order, unknown keys ignored; a
\* key that does not occur stays unset (None).
string2carbonfile(data) ==
    carbon_components(Split(data, "|"), <<None, None, None, None>>)

(***************************************************************************)
(* Record codec.  A RORPath is [index |-> sequence of path components,     *)
(* data |-> dictionary], the dictionary a function from key names to       *)
(* values, as rpath.RORPath(index, data_dict) is built by Record2RORP.     *)
(***************************************************************************)
Has(d, key) == key \in DOMAIN d
Put(d, key, value) == (key :> value) @@ d
EmptyDict == [k \in {} |-> None]

\* rorpath.get_indexpath(): "." for the root, else the components joined
\* with "/".
get_indexpath(rorpath) ==
    IF rorpath.index = <<>> THEN <<".">> ELSE Join(rorpath.index, <<"/">>)

Line(name, value) == Chars(name) \o value \o <<LF>>

\* The type-specific lines of a regular file.
reg_lines(d) ==
    Line("  Size ", IntToStr(d.size))
    \o (IF Has(d, "resourcefork")
        THEN Line("  ResourceFork ",
                  IF d.resourcefork = <<>> THEN Chars("None") ELSE hexlify(d.resourcefork))
        ELSE <<>>)
    \o (IF Has(d, "carbonfile")
        THEN Line("  CarbonFile ",
                  IF d.carbonfile = None THEN Chars("None") ELSE carbonfile2string(d.carbonfile))
        ELSE <<>>)
    \o (IF preserve_hardlinks /\ (IF Has(d, "nlink") THEN d.nlink ELSE 1) > 1
        THEN Line("  NumHardLinks ", IntToStr(d.nlink))
             \o Line("  Inode ", IntToStr(d.inode))
             \o Line("  DeviceLoc ", IntToStr(d.devloc))
        ELSE <<>>)
    \o (IF Has(d, "sha1") THEN Line("  SHA1Digest ", d.sha1) ELSE <<>>)

\* The common lines with the names written as "%s" % name, without the
\* 'or ":"'.
common_lines_rawname(d) ==
    (IF d.type # Chars("sym") /\ d.type # Chars("dev")
     THEN Line("  ModTime ", IntToStr(d.mtime)) ELSE <<>>)
    \o Line("  Uid ", IntToStr(d.uid))
    \o Line("  Uname ", IF d.uname = None THEN Chars("None") ELSE d.uname)
    \o Line("  Gid ", IntToStr(d.gid))
    \o Line("  Gname ", IF d.gname = None THEN Chars("None") ELSE d.gname)
    \o Line("  Permissions ", IntToStr(d.perms))

\* The lines every type but None ends with: time, owner, permissions.
common_lines(d) ==
    (IF d.type # Chars("sym") /\ d.type # Chars("dev")
     THEN Line("  ModTime ", IntToStr(d.mtime)) ELSE <<>>)
    \o Line("  Uid ", IntToStr(d.uid))
    \o Line("  Uname ", IF d.uname = None \/ d.uname = <<>> THEN <<":">> ELSE d.uname)
    \o Line("  Gid ", IntToStr(d.gid))
    \o Line("  Gname ", IF d.gname = None \/ d.gname = <<>> THEN <<":">> ELSE d.gname)
    \o Line("  Permissions ", IntToStr(d.perms))

\* RORP2Record(rorpath): the text record of a file's metadata.
RORP2Record(rorpath) ==
    LET d == rorpath.data
        type == IF d.type = None THEN Chars("None") ELSE d.type
        head == Line("File ", quote_path(get_indexpath(rorpath)))
                \o Line("  Type ", type)
    IN  IF type = Chars("reg") THEN head \o reg_lines(d) \o common_lines(d)
        ELSE IF type = Chars("None") THEN head
        ELSE IF type \in {Chars("dir"), Chars("sock"), Chars("fifo")}
             THEN head \o common_lines(d)
        ELSE IF type = Chars("sym")
             THEN head \o Line("  SymData ", quote_path(d.linkname)) \o common_lines(d)
        ELSE IF type = Chars("dev")
             THEN head
                  \o Line("  DeviceNum ", <<d.devnums[1]>> \o <<" ">> \o IntToStr(d.devnums[2])
                                          \o <<" ">> \o IntToStr(d.devnums[3]))
                  \o common_lines(d)
        ELSE head \o common_lines(d)

Alnum == Range(Letters) \cup Range(Digits)

\* Number of leading elements of s that are in S.
RECURSIVE RunLen(_, _)
RunLen(s, S) == IF s # <<>> /\ Head(s) \in S THEN 1 + RunLen(Tail(s), S) ELSE 0

\* line_parsing_regexp, "^ *([A-Za-z0-9]+) (.+)$" with re.M, on one line:
\* <<field, data>> if the line matches, <<>> if not.
match_line(line) ==
    LET rest == SubSeq(line, RunLen(line, {" "}) + 1, Len(line))
        n == RunLen(rest, Alnum)
    IN  IF n >= 1 /\ Len(rest) >= n + 2 /\ rest[n + 1] = " "
        THEN <<SubSeq(rest, 1, n), SubSeq(rest, n + 2, Len(rest))>>
        ELSE <<>>

\* line_parsing_regexp.findall(record_string): the matching lines, in order.
findall_lines(record_string) ==
    LET lines == Split(record_string, LF)
    IN  SelectSeq([i \in DOMAIN lines |-> match_line(lines[i])], LAMBDA m : m # <<>>)

\* quoted_filename_to_index without the special case of the root.
filename_to_index_noroot(quoted_filename) ==
    Split(unquote_path(quoted_filename), "/")

\* quoted_filename_to_index
quoted_filename_to_index(quoted_filename) ==
    IF quoted_filename = <<".">> THEN <<>>
    ELSE Split(unquote_path(quoted_filename), "/")

Unbound == <<<<"<unbound>">>>>
Raise(acc, e) == [acc EXCEPT !.exc = e]
Set(acc, key, value) == [acc EXCEPT !.data = Put(acc.data, key, value)]
SetInt(acc, key, text) ==
    IF IsNumeral(text) THEN Set(acc, key, StrToInt(text)) ELSE Raise(acc, "ValueError")

\* The body of Record2RORP's loop for one (field, data) pair.
record_field(acc, field, data) ==
    CASE field = Chars("File") -> [acc EXCEPT !.index = quoted_filename_to_index(data)]
      [] field = Chars("Type") ->
            Set(acc, "type", IF data = Chars("None") THEN None ELSE data)
      [] field = Chars("Size") -> SetInt(acc, "size", data)
      [] field = Chars("ResourceFork") ->
            IF data = Chars("None") THEN Set(acc, "resourcefork", <<>>)
            ELSE IF IsHex(data) THEN Set(acc, "resourcefork", unhexlify(data))
            ELSE Raise(acc, "TypeError")
      [] field = Chars("CarbonFile") ->
            IF data = Chars("None") THEN Set(acc, "carbonfile", None)
            ELSE IF \A c \in Range(Split(data, "|")) :
                       /\ Len(Split(c, ":")) = 2
                       /\ Split(c, ":")[1] \in {Chars("creator"), Chars("type")}
                              => IsHex(Split(c, ":")[2])
                       /\ Split(c, ":")[1] = Chars("location")
                              => /\ Len(Split(Split(c, ":")[2], ",")) = 2
                                 /\ \A x \in Range(Split(Split(c, ":")[2], ",")) : IsNumeral(x)
                       /\ Split(c, ":")[1] = Chars("flags") => IsNumeral(Split(c, ":")[2])
                 THEN Set(acc, "carbonfile", string2carbonfile(data))
            ELSE Raise(acc, "ValueError")
      [] field = Chars("SHA1Digest") -> Set(acc, "sha1", data)
      [] field = Chars("NumHardLinks") -> SetInt(acc, "nlink", data)
      [] field = Chars("Inode") -> SetInt(acc, "inode", data)
      [] field = Chars("DeviceLoc") -> SetInt(acc, "devloc", data)
      [] field = Chars("SymData") -> Set(acc, "linkname", unquote_path(data))
      [] field = Chars("DeviceNum") ->
            IF Len(Split(data, " ")) = 3 /\ IsNumeral(Split(data, " ")[2])
               /\ IsNumeral(Split(data, " ")[3])
            THEN Set(acc, "devnums", <<Split(data, " ")[1], StrToInt(Split(data, " ")[2]),
                                       StrToInt(Split(data, " ")[3])>>)
            ELSE Raise(acc, "ValueError")
      [] field = Chars("ModTime") -> SetInt(acc, "mtime", data)
      [] field = Chars("Uid") -> SetInt(acc, "uid", data)
      [] field = Chars("Gid") -> SetInt(acc, "gid", data)
      [] field = Chars("Uname") ->
            Set(acc, "uname", IF data = <<":">> \/ data = Chars("None") THEN None ELSE data)
      [] field = Chars("Gname") ->
            Set(acc, "gname", IF data = <<":">> \/ data = Chars("None") THEN None ELSE data)
      [] field = Chars("Permissions") -> SetInt(acc, "perms", data)
      [] OTHER -> Raise(acc, "ParsingError")

RECURSIVE record_fields(_, _)
\* The for loop of Record2RORP over the (field, data) pairs, in order, the
\* first half of them and then the rest; an exception ends the loop.
record_fields(acc, pairs) ==
    IF pairs = <<>> \/ acc.exc # "" THEN acc
    ELSE IF Len(pairs) = 1 THEN record_field(acc, pairs[1][1], pairs[1][2])
    ELSE Call2(record_fields,
               record_fields(acc, SubSeq(pairs, 1, Len(pairs) \div 2)),
               SubSeq(pairs, Len(pairs) \div 2 + 1, Len(pairs)))

\* Record2RORP(record_string): [exc |-> "", index, data] for the RORPath
\* returned, or [exc |-> the exception raised].  A record with no File line
\* leaves the local variable index unbound, and the return statement raises
\* UnboundLocalError.
Record2RORP(record_string) ==
    LET acc == record_fields([exc |-> "", index |-> Unbound, data |-> EmptyDict],
                             findall_lines(record_string))
    IN  IF acc.exc # "" THEN [exc |-> acc.exc]
        ELSE IF acc.index = Unbound THEN [exc |-> "UnboundLocalError"]
        ELSE acc

(***************************************************************************)
(* Flat file, write side.  A FlatFile opened for writing and its file are  *)
(* the pair [w, d]:                                                        *)
(*   w = [record_buffer, fileobj], fileobj the stream                      *)
(*       [open |-> FALSE once self.fileobj is None, gz |-> it is a         *)
(*       GzipFile, held |-> the bytes write() took that the compressor     *)
(*       and the file buffer still hold];                                  *)
(*   d = [data |-> the bytes handed to the file descriptor so far,         *)
(*        log |-> what happened to the descriptor, in order: "write",      *)
(*        "trailer" (the gzip CRC and size), "fsync", "close", and the     *)
(*        calls of the writer on its stream at the moment they are made:   *)
(*        "stream.write", "stream.close"].                                 *)
(* The compression itself is not modelled: data stands for the bytes a     *)
(* reader of the file gets back.                                           *)
(***************************************************************************)
buffering_on == TRUE
\* FlatFile._max_buffer_size, 100 in the code, scaled to the model's logs.
max_buffer_size == 2

NewFile == [data |-> <<>>, log |-> <<>>]
NoFileobj == [open |-> FALSE, gz |-> FALSE, held |-> <<>>]
NewWriter(gz) == [record_buffer |-> <<>>, fileobj |-> [open |-> TRUE, gz |-> gz, held |-> <<>>]]

\* self.fileobj.write(data).  The stream keeps the data it is given; what it
\* held before may be handed to the descriptor now (early) or stay held.
stream_write(f, data, early) ==
    LET out == IF early THEN f.w.fileobj.held ELSE <<>>
    IN  [f EXCEPT !.w.fileobj.held = (IF early THEN <<>> ELSE @) \o data,
                  !.d.data = @ \o out,
                  !.d.log = Append(@, "stream.write")
                                \o (IF out # <<>> THEN <<"write">> ELSE <<>>)]

\* self.fileobj.close(): a GzipFile flushes the compressor, writes its
\* trailer and closes the file under it; a file flushes its buffer and
\* closes.
stream_close(f) ==
    [f EXCEPT !.d.data = @ \o f.w.fileobj.held,
              !.d.log = Append(@, "stream.close")
                          \o (IF f.w.fileobj.held # <<>> THEN <<"write">> ELSE <<>>)
                          \o (IF f.w.fileobj.gz THEN <<"trailer">> ELSE <<>>)
                          \o <<"close">>,
              !.w.fileobj = NoFileobj]

\* A write_record that writes the batch and keeps it.
write_record_keep(f, rec, early) ==
    LET rb == Append(f.w.record_buffer, rec)
    IN  IF Len(rb) >= max_buffer_size
        THEN stream_write([f EXCEPT !.w.record_buffer = <<rec>>], Concat(rb), early)
        ELSE [f EXCEPT !.w.record_buffer = rb]

\* FlatFile.write_record
write_record(f, rec, early) ==
    IF buffering_on
    THEN LET rb == Append(f.w.record_buffer, rec)
         IN  IF Len(rb) >= max_buffer_size
             THEN stream_write([f EXCEPT !.w.record_buffer = <<>>], Concat(rb), early)
             ELSE [f EXCEPT !.w.record_buffer = rb]
    ELSE stream_write(f, rec, early)

\* MetadataFile.write_object: _object_to_record is RORP2Record.
write_object(f, obj, early) == write_record(f, RORP2Record(obj), early)

\* os.fsync(fileno), fileno the descriptor of the file under the stream.
fsync(f) == [f EXCEPT !.d.log = Append(@, "fsync")]

\* A close that goes on when the FlatFile is closed already.
FlatFile_close_again(f, early) ==
    IF ~f.w.fileobj.open THEN [exc |-> "", f |-> fsync(f)]
    ELSE LET f1 == IF buffering_on /\ f.w.record_buffer # <<>>
                   THEN stream_write([f EXCEPT !.w.record_buffer = <<>>],
                                     Concat(f.w.record_buffer), early)
                   ELSE f
         IN  [exc |-> "", f |-> stream_close(fsync(f1))]

\* A close that closes the stream before the fsync.
FlatFile_close_closefirst(f, early) ==
    IF ~f.w.fileobj.open THEN [exc |-> "AssertionError", f |-> f]
    ELSE LET f1 == IF buffering_on /\ f.w.record_buffer # <<>>
                   THEN stream_write([f EXCEPT !.w.record_buffer = <<>>],
                                     Concat(f.w.record_buffer), early)
                   ELSE f
         IN  [exc |-> "", f |-> fsync(stream_close(f1))]

\* FlatFile.close: [exc, f].  The assertion fails on a closed FlatFile.
FlatFile_close(f, early) ==
    IF ~f.w.fileobj.open THEN [exc |-> "AssertionError", f |-> f]
    ELSE LET f1 == IF buffering_on /\ f.w.record_buffer # <<>>
                   THEN stream_write([f EXCEPT !.w.record_buffer = <<>>],
                                     Concat(f.w.record_buffer), early)
                   ELSE f
         IN  [exc |-> "", f |-> stream_close(fsync(f1))]

(***************************************************************************)
(* Flat extractor.  The extractor object is the record                     *)
(* [buf, at_end, blocksize, file], file the stream it reads:               *)
(* [data |-> the bytes, pos |-> the read position, closed |-> BOOLEAN].    *)
(***************************************************************************)
Min(S) == CHOOSE x \in S : \A y \in S : x <= y
Slice(seq, from, to) == SubSeq(seq, from + 1, to)   \* seq[from:to], 0-based
From(seq, from) == SubSeq(seq, from + 1, Len(seq))  \* seq[from:]
IsAt(seq, i, word) ==                              \* seq[i:].startswith(word)
    /\ i + Len(word) <= Len(seq)
    /\ seq[i + 1] = word[1]
    /\ \A k \in 2..Len(word) : seq[i + k] = word[k]

\* fileobj.read(size): the next size bytes, fewer at the end of the file.
file_read(file, size) ==
    LET end == IF file.pos + size < Len(file.data) THEN file.pos + size ELSE Len(file.data)
    IN  [bytes |-> Slice(file.data, file.pos, end), file |-> [file EXCEPT !.pos = end]]

\* fileobj.readline(): the bytes up to and including the next LF, or up to
\* the end of the file.
file_readline(file) ==
    LET lfs == {i \in (file.pos + 1)..Len(file.data) : file.data[i] = LF}
        end == IF lfs = {} THEN Len(file.data) ELSE Min(lfs)
    IN  [bytes |-> Slice(file.data, file.pos, end), file |-> [file EXCEPT !.pos = end]]

FileWord == Chars("File ")

\* RorpExtractor.record_boundary_regexp, "(?:\n|^)(File (.*?))\n", searched
\* in buf from position pos: the leftmost match, as [found, start1, end1,
\* group2] with start1 = m.start(1), end1 = m.end(1), group2 = m.group(2).
\* "^" matches at position 0 only, "." matches no LF.
boundary_search(buf, pos) ==
    LET starts == {f \in 0..(Len(buf) - 6) :
                      /\ IsAt(buf, f, FileWord)
                      /\ \/ f = 0 /\ pos = 0
                         \/ f >= 1 /\ f - 1 >= pos /\ buf[f] = LF
                      /\ \E e \in (f + 6)..Len(buf) : buf[e] = LF}
    IN  IF starts = {} THEN [found |-> FALSE]
        ELSE LET f == Min(starts)
                 e == Min({e \in (f + 6)..Len(buf) : buf[e] = LF}) - 1
             IN  [found |-> TRUE, start1 |-> f, end1 |-> e, group2 |-> Slice(buf, f + 5, e)]

\* The extractor after the reads of one call of get_next_pos have added n
\* bytes of the file to the buffer.
after_read(ex, n) ==
    [ex EXCEPT !.buf = ex.buf \o Slice(ex.file.data, ex.file.pos, ex.file.pos + n),
               !.file.pos = ex.file.pos + n]

\* The bytes read by a get_next_pos that reads the rest of the file in one
\* read.
bytes_read_all(ex, need) ==
    IF need <= Len(ex.buf) THEN 0 ELSE Len(ex.file.data) - ex.file.pos

\* The bytes the loop of get_next_pos reads until the buffer holds its first
\* need bytes: no block when it holds them already, else whole blocks, the
\* last one cut at the end of the file.
bytes_read(ex, need) ==
    IF need <= Len(ex.buf) THEN 0
    ELSE Min({((need - Len(ex.buf) + ex.blocksize - 1) \div ex.blocksize) * ex.blocksize,
              Len(ex.file.data) - ex.file.pos})

\* The outcome of the loop of get_next_pos, m the leftmost boundary, searched
\* from position 1, of the buffer followed by the rest of the file.  The
\* search of the loop finds no boundary before this one and finds it as
\* soon as the buffer holds the LF that ends it, at position m.end1; with
\* no boundary the loop reads up to the empty block at the end of the file.
next_pos_at(ex, m) ==
    IF m.found
    THEN [pos |-> m.start1, ex |-> after_read(ex, bytes_read(ex, m.end1 + 1))]
    ELSE [pos |-> Len(ex.buf) + Len(ex.file.data) - ex.file.pos,
          ex |-> [after_read(ex, Len(ex.file.data) - ex.file.pos) EXCEPT !.at_end = TRUE]]

\* FlatExtractor.get_next_pos: [pos |-> position of the next record in the
\* buffer, or its length at the end, ex |-> the extractor afterwards].
get_next_pos(ex) ==
    Call2(next_pos_at, ex, boundary_search(ex.buf \o From(ex.file.data, ex.file.pos), 1))

\* assert not self.fileobj.close()
close_file(ex) == [ex EXCEPT !.file.closed = TRUE]

\* The order of Python's byte strings and tuples.
Ascii == <<LF>> \o Chars(" ./0123456789ABCDEFGHIJKLMNOPQRSTUVWXYZ") \o <<BS>>
         \o Chars("abcdefghijklmnopqrstuvwxyz")
Ord(c) == IndexOf(Ascii, c)

RECURSIVE StrLess(_, _)
StrLess(a, b) ==
    IF b = <<>> THEN FALSE
    ELSE IF a = <<>> THEN TRUE
    ELSE IF Head(a) = Head(b) THEN StrLess(Tail(a), Tail(b))
    ELSE Ord(Head(a)) < Ord(Head(b))

RECURSIVE IndexLess(_, _)
\* index1 < index2 for two tuples of strings.
IndexLess(a, b) ==
    IF b = <<>> THEN FALSE
    ELSE IF a = <<>> THEN TRUE
    ELSE IF Head(a) = Head(b) THEN IndexLess(Tail(a), Tail(b))
    ELSE StrLess(Head(a), Head(b))

\* obj.index[:len(index)] == index
HasPrefix(index, prefix) ==
    SubSeq(index, 1, IF Len(prefix) < Len(index) THEN Len(prefix) ELSE Len(index)) = prefix

RECURSIVE skip_scan(_, _)
\* The inner loop of skip_to_index: [found |-> a record with index >= the
\* target starts the buffer, buf].
skip_scan(buf, index) ==
    LET m == boundary_search(buf, 0)
    IN  IF ~m.found THEN [found |-> FALSE, buf |-> buf]
        ELSE IF ~IndexLess(quoted_filename_to_index(m.group2), index)
             THEN [found |-> TRUE, buf |-> From(buf, m.start1)]
        ELSE Call2(skip_scan, From(buf, m.end1), index)

\* The position of the file after one pass of the outer loop of
\* skip_to_index from position pos: fileobj.read(blocksize), then
\* fileobj.readline() if readline.
read_end(data, pos, size, readline) ==
    IF readline
    THEN file_readline(file_read([data |-> data, pos |-> pos], size).file).file.pos
    ELSE file_read([data |-> data, pos |-> pos], size).file.pos

RECURSIVE pass_ends(_, _, _, _, _)

\* The positions after n more passes, first the positions of the passes
\* before them.
pass_ends_more(data, first, size, readline, n) ==
    first \o pass_ends(data, first[Len(first)], size, readline, n)

\* The positions of the file after each of the next n >= 1 passes from
\* position pos, half of them and then the rest; a pass at the end of the
\* file reads nothing and stays there.
pass_ends(data, pos, size, readline, n) ==
    IF n = 1 THEN <<read_end(data, pos, size, readline)>>
    ELSE Call5(pass_ends_more, data, pass_ends(data, pos, size, readline, n \div 2),
               size, readline, n - n \div 2)

\* The passes that read something, of the n first ones.
reading_passes(pos, ends) ==
    SubSeq(ends, 1, Cardinality({k \in DOMAIN ends :
                                    ends[k] > IF k = 1 THEN pos ELSE ends[k - 1]}))

\* The positions of the file after each pass of the outer loop of
\* skip_to_index that reads something, were all of them to run: a pass
\* with readline reads to the end of a line at least, a pass without
\* reads a block.
block_ends(data, pos, size, readline) ==
    IF pos >= Len(data) THEN <<>>
    ELSE Call2(reading_passes, pos,
               pass_ends(data, pos, size, readline,
                         IF readline
                         THEN Cardinality({i \in (pos + 1)..Len(data) : data[i] = LF}) + 1
                         ELSE (Len(data) - pos + size - 1) \div size))

\* The outer loop of skip_to_index over the buffers its passes read, the
\* k-th one the bytes of the file from ends[k-1] to ends[k]: each pass sets
\* self.buf anew, so the first buffer where the inner loop finds a record
\* with index >= the target ends the loop, and with none the empty read at
\* the end of the file does.
skip_blocks(ex, index, ends) ==
    LET buf(k) == Slice(ex.file.data, IF k = 1 THEN ex.file.pos ELSE ends[k - 1], ends[k])
        hits == {k \in DOMAIN ends : skip_scan(buf(k), index).found}
    IN  IF hits = {}
        THEN [ex EXCEPT !.buf = <<>>, !.at_end = TRUE, !.file.pos = Len(ex.file.data)]
        ELSE [ex EXCEPT !.buf = skip_scan(buf(Min(hits)), index).buf,
                        !.file.pos = ends[Min(hits)]]

\* skip_to_index without the readline that ends the buffer at a line end.
skip_to_index_noreadline(ex, index) ==
    Call3(skip_blocks, ex, index,
          block_ends(ex.file.data, ex.file.pos, ex.blocksize, FALSE))

\* FlatExtractor.skip_to_index: the extractor with its buffer set to the
\* beginning of the first record whose index is >= index, or at_end set.
skip_to_index(ex, index) ==
    Call3(skip_blocks, ex, index,
          block_ends(ex.file.data, ex.file.pos, ex.blocksize, TRUE))

(***************************************************************************)
(* The generators.  A generator runs from where it was suspended to its    *)
(* next yield, its end or an exception: the result is                      *)
(* [how |-> "yield" | "stop" | "raise", obj, exc, next_pos, ex].           *)
(***************************************************************************)
Outcome(how, obj, exc, next_pos, ex) ==
    [how |-> how, obj |-> obj, exc |-> exc, next_pos |-> next_pos, ex |-> ex]

RECURSIVE iterate_loop(_)

\* The loop body of an iterate that stops at any record that raises
\* ParsingError.
iterate_object_stop(r, obj) ==
    IF obj.exc = "" THEN Outcome("yield", obj, "", r.pos, r.ex)
    ELSE IF obj.exc = "ParsingError" THEN Outcome("stop", None, "", r.pos, r.ex)
    ELSE Outcome("raise", None, obj.exc, r.pos, r.ex)

\* The body of the for loop of iterate for the record at the head of the
\* buffer of r.ex, obj what record_to_object made of it.
iterate_object(r, obj) ==
    IF obj.exc = "" THEN Outcome("yield", obj, "", r.pos, r.ex)
    ELSE IF obj.exc = "ParsingError"
         THEN IF r.ex.at_end
              THEN Outcome("stop", None, "", r.pos, r.ex)   \* break: records left unclosed
              ELSE Call1(iterate_loop, [r.ex EXCEPT !.buf = From(r.ex.buf, r.pos)])
    ELSE Outcome("raise", None, obj.exc, r.pos, r.ex)

\* yield self.buf[:next_pos] of iterate_records, taken by iterate.
iterate_record(r) == Call2(iterate_object, r, Record2RORP(SubSeq(r.ex.buf, 1, r.pos)))

\* FlatExtractor.iterate over iterate_records, from the top of the while
\* loop of iterate_records.
iterate_loop(ex) == Call1(iterate_record, get_next_pos(ex))

\* The consumer's next() on a suspended iterate(): the rest of the loop body
\* of iterate_records after its yield, then the loop again.
iterate_resume(ex, next_pos) ==
    IF ex.at_end THEN Outcome("stop", None, "", next_pos, close_file(ex))
    ELSE Call1(iterate_loop, [ex EXCEPT !.buf = From(ex.buf, next_pos)])

RECURSIVE starting_with_loop(_, _)

\* The body of the while loop of iterate_starting_with after
\* record_to_object, obj what it made of the record.
starting_with_object(r, obj, index) ==
    IF obj.exc = ""
    THEN IF ~HasPrefix(obj.index, index)
         THEN Outcome("stop", None, "", r.pos, close_file(r.ex))
         ELSE Outcome("yield", obj, "", r.pos, r.ex)
    ELSE IF obj.exc = "ParsingError"
         THEN IF r.ex.at_end THEN Outcome("stop", None, "", r.pos, close_file(r.ex))
              ELSE Call2(starting_with_loop, [r.ex EXCEPT !.buf = From(r.ex.buf, r.pos)], index)
    ELSE Outcome("raise", None, obj.exc, r.pos, r.ex)

starting_with_record(r, index) ==
    Call3(starting_with_object, r, Record2RORP(SubSeq(r.ex.buf, 1, r.pos)), index)

\* The while loop of iterate_starting_with, from its top.
starting_with_loop(ex, index) == Call2(starting_with_record, get_next_pos(ex), index)

\* iterate_starting_with after skip_to_index, sk the extractor it left.
starting_with_skipped(sk, index) ==
    IF sk.at_end THEN Outcome("stop", None, "", 0, sk)   \* return: stream left open
    ELSE Call2(starting_with_loop, sk, index)

\* The first next() on iterate_starting_with(index).
starting_with_start(ex, index) == Call2(starting_with_skipped, skip_to_index(ex, index), index)

starting_with_resume(ex, next_pos, index) ==
    IF ex.at_end THEN Outcome("stop", None, "", next_pos, close_file(ex))
    ELSE Call2(starting_with_loop, [ex EXCEPT !.buf = From(ex.buf, next_pos)], index)

(***************************************************************************)
(* patch.  An iterator is the sequence of objects it yields; a slot of a   *)
(* collated tuple that holds no object (None) is NoRorp.                   *)
(***************************************************************************)
NoRorp == [absent |-> TRUE]

\* The object with the given index in an iterator, NoRorp if it has none.
AtIndex(iter, index) ==
    IF \E k \in DOMAIN iter : iter[k].index = index
    THEN iter[CHOOSE k \in DOMAIN iter : iter[k].index = index]
    ELSE NoRorp

RECURSIVE SortIndexes(_)
SortIndexes(S) ==
    IF S = {} THEN <<>>
    ELSE LET least == CHOOSE i \in S : \A j \in S \ {i} : IndexLess(i, j)
         IN  <<least>> \o SortIndexes(S \ {least})

\* rorpiter.CollateIterators(*iters): for each index some iterator holds, in
\* ascending order, the tuple of the objects the iterators have for it.
CollateIterators(iters) ==
    LET indexes == SortIndexes(UNION {{iters[i][k].index : k \in DOMAIN iters[i]} : i \in DOMAIN iters})
    IN  [n \in DOMAIN indexes |-> [i \in DOMAIN iters |-> AtIndex(iters[i], indexes[n])]]

\* rorp.lstat(): the type, None for a file that does not exist.
lstat(rorpath) == rorpath.data.type # None

RECURSIVE patch_scan_skipdead(_, _)
\* A scan that passes over a tombstone and goes on to the next slot.
patch_scan_skipdead(meta_tuple, i) ==
    IF i = 0 THEN [how |-> "skip"]
    ELSE IF meta_tuple[i] # NoRorp /\ lstat(meta_tuple[i])
         THEN [how |-> "yield", obj |-> meta_tuple[i]]
    ELSE patch_scan_skipdead(meta_tuple, i - 1)

RECURSIVE patch_scan_up(_, _)
\* A scan from the first slot to the last.
patch_scan_up(meta_tuple, i) ==
    LET k == Len(meta_tuple) + 1 - i
    IN  IF i = 0 THEN [how |-> "raise"]
        ELSE IF meta_tuple[k] # NoRorp
             THEN IF lstat(meta_tuple[k]) THEN [how |-> "yield", obj |-> meta_tuple[k]]
                  ELSE [how |-> "skip"]
        ELSE patch_scan_up(meta_tuple, i - 1)

RECURSIVE patch_scan_noassert(_, _)
\* A scan whose for loop has no else clause: a tuple with no object is
\* passed over.
patch_scan_noassert(meta_tuple, i) ==
    IF i = 0 THEN [how |-> "skip"]
    ELSE IF meta_tuple[i] # NoRorp
         THEN IF lstat(meta_tuple[i]) THEN [how |-> "yield", obj |-> meta_tuple[i]]
              ELSE [how |-> "skip"]
    ELSE patch_scan_noassert(meta_tuple, i - 1)

RECURSIVE patch_scan(_, _)
\* The inner for loop of patch, for i in range(len(meta_tuple)-1, -1, -1),
\* from slot i (slot 1 is meta_tuple[0]): the first object met decides, it
\* is yielded if it exists (lstat) and passed over if not; no object at all
\* fails the assertion.
patch_scan(meta_tuple, i) ==
    IF i = 0 THEN [how |-> "raise"]
    ELSE IF meta_tuple[i] # NoRorp
         THEN IF lstat(meta_tuple[i]) THEN [how |-> "yield", obj |-> meta_tuple[i]]
              ELSE [how |-> "skip"]
    ELSE patch_scan(meta_tuple, i - 1)

RECURSIVE patch_next(_)
RECURSIVE patch_step(_, _)
\* The generator patch, run on the tuples left to its next yield, its end
\* or the assertion: [how, obj, rest].
patch_next(tuples) ==
    IF tuples = <<>> THEN [how |-> "stop", obj |-> NoRorp, rest |-> <<>>]
    ELSE patch_step(patch_scan(Head(tuples), Len(Head(tuples))), Tail(tuples))

\* What patch does with the outcome of the scan of one tuple.
patch_step(scan, rest) ==
    IF scan.how = "yield" THEN [how |-> "yield", obj |-> scan.obj, rest |-> rest]
    ELSE IF scan.how = "skip" THEN patch_next(rest)
    ELSE [how |-> "raise", obj |-> NoRorp, rest |-> rest]

(***************************************************************************)
(* Manager writers and CombinedWriter.                                     *)
(* Globals.rbdir is modelled as a function from the names of the files of  *)
(* the data directory to                                                   *)
(*   [exists |-> BOOLEAN, data |-> the bytes, log |-> the events of the    *)
(*    descriptor, as for a flat file].                                     *)
(* A FlatFile opened 'w' on a file of the directory is                     *)
(*   [some |-> TRUE, rp |-> the name, w |-> record buffer and stream].     *)
(***************************************************************************)
meta_prefix == "mirror_metadata"
acl_prefix == "access_control_lists"
ea_prefix == "extended_attributes"
\* Time.curtimestr, the time string of the session.
curtimestr == "2002-04-16T12:00:00Z"

\* filename = '%s.%s.%s.gz' % (prefix, timestr, typestr)
writer_filename(prefix, timestr, typestr) ==
    prefix \o "." \o timestr \o "." \o typestr \o ".gz"

\* A name with no file, and a file that was there before the session.
NoPath == [exists |-> FALSE, data |-> <<>>, log |-> <<>>]
OldFile == [exists |-> TRUE, data |-> Chars("old"), log |-> <<>>]

\* None where a writer is expected, and a local name never assigned.
NoWriter == [some |-> FALSE, rp |-> "", w |-> [record_buffer |-> <<>>, fileobj |-> NoFileobj]]
UnboundLocal == [some |-> FALSE, rp |-> "<unbound>", w |-> NoWriter.w]

\* rp.lstat() and rp.open("wb", compressed): the open creates the file, or
\* truncates the one that is there.
rp_lstat(dir, rp) == dir[rp].exists
rp_open_wb(dir, rp) == [dir EXCEPT ![rp] = [exists |-> TRUE, data |-> <<>>, log |-> <<"open">>]]

\* FlatFile.__init__(rp, 'w') without its assertion.
FlatFile_init_noassert(dir, rp) ==
    [exc |-> "", dir |-> rp_open_wb(dir, rp),
     writer |-> [some |-> TRUE, rp |-> rp, w |-> NewWriter(TRUE)]]

\* FlatFile.__init__(rp, 'w'): [exc, dir, writer].  The names of the model
\* end in .gz, so the stream is a GzipFile.
FlatFile_init(dir, rp) ==
    IF rp_lstat(dir, rp)
    THEN [exc |-> "AssertionError", dir |-> dir, writer |-> NoWriter]
    ELSE [exc |-> "", dir |-> rp_open_wb(dir, rp),
          writer |-> [some |-> TRUE, rp |-> rp, w |-> NewWriter(TRUE)]]

\* Manager._writer_helper: [exc, dir, writer]
writer_helper(dir, prefix, typestr, timestr) ==
    IF rp_lstat(dir, writer_filename(prefix, timestr, typestr))
    THEN [exc |-> "AssertionError", dir |-> dir, writer |-> NoWriter]
    ELSE FlatFile_init(dir, writer_filename(prefix, timestr, typestr))

get_meta_writer(dir, typestr, timestr) == writer_helper(dir, meta_prefix, typestr, timestr)
get_ea_writer(dir, typestr, timestr) == writer_helper(dir, ea_prefix, typestr, timestr)
get_acl_writer(dir, typestr, timestr) == writer_helper(dir, acl_prefix, typestr, timestr)

\* What a call that creates writers returns: nothing, one FlatFile (in the
\* slot of its class) or a CombinedWriter.
NoResult == [kind |-> "None", metawriter |-> NoWriter, eawriter |-> NoWriter, aclwriter |-> NoWriter]
BareWriter(prefix, w) ==
    [kind |-> "FlatFile",
     metawriter |-> IF prefix = meta_prefix THEN w ELSE NoWriter,
     eawriter |-> IF prefix = ea_prefix THEN w ELSE NoWriter,
     aclwriter |-> IF prefix = acl_prefix THEN w ELSE NoWriter]

\* CombinedWriter.__init__: eawriter and aclwriter can be None.
CombinedWriter_init(metawriter, eawriter, aclwriter) ==
    [kind |-> "CombinedWriter", metawriter |-> metawriter,
     eawriter |-> eawriter, aclwriter |-> aclwriter]

Raised(exc, dir) == [exc |-> exc, dir |-> dir, result |-> NoResult]

\* return CombinedWriter(metawriter, ea_writer, acl_writer): reading a local
\* name that was never assigned raises UnboundLocalError.
GetWriter_return(dir, metawriter, ea_writer, acl_writer) ==
    IF ea_writer = UnboundLocal \/ acl_writer = UnboundLocal
    THEN Raised("UnboundLocalError", dir)
    ELSE [exc |-> "", dir |-> dir,
          result |-> CombinedWriter_init(metawriter, ea_writer, acl_writer)]

\* if Globals.acls_active: acl_writer = self.get_acl_writer(typestr, time)
GetWriter_acls(dir, metawriter, ea_writer, acls, typestr, timestr) ==
    IF acls
    THEN LET a == get_acl_writer(dir, typestr, timestr)
         IN  IF a.exc # "" THEN Raised(a.exc, a.dir)
             ELSE GetWriter_return(a.dir, metawriter, ea_writer, a.writer)
    ELSE GetWriter_return(dir, metawriter, ea_writer, UnboundLocal)

\* if Globals.eas_active: ea_writer = self.get_ea_writer(typestr, time)
GetWriter_eas(dir, metawriter, eas, acls, typestr, timestr) ==
    IF eas
    THEN LET e == get_ea_writer(dir, typestr, timestr)
         IN  IF e.exc # "" THEN Raised(e.exc, e.dir)
             ELSE GetWriter_acls(e.dir, metawriter, e.writer, acls, typestr, timestr)
    ELSE GetWriter_acls(dir, metawriter, UnboundLocal, acls, typestr, timestr)

\* Manager.GetWriter: [exc, dir, result]
GetWriter(dir, eas, acls, typestr, timestr) ==
    LET m == get_meta_writer(dir, typestr, timestr)
    IN  IF m.exc # "" THEN Raised(m.exc, m.dir)
        ELSE IF ~eas /\ ~acls
             THEN [exc |-> "", dir |-> m.dir, result |-> BareWriter(meta_prefix, m.writer)]
        ELSE GetWriter_eas(m.dir, m.writer, eas, acls, typestr, timestr)

\* CombinedWriter(get_meta_writer(..), get_ea_writer(..) or None,
\* get_acl_writer(..) or None), as a caller of the class composes it.
ComposeWriter(dir, has_ea, has_acl, typestr, timestr) ==
    LET m == get_meta_writer(dir, typestr, timestr)
        e == IF m.exc = "" /\ has_ea THEN get_ea_writer(m.dir, typestr, timestr)
             ELSE [exc |-> m.exc, dir |-> m.dir, writer |-> NoWriter]
        a == IF e.exc = "" /\ has_acl THEN get_acl_writer(e.dir, typestr, timestr)
             ELSE [exc |-> e.exc, dir |-> e.dir, writer |-> NoWriter]
    IN  IF a.exc # "" THEN Raised(a.exc, a.dir)
        ELSE [exc |-> "", dir |-> a.dir,
              result |-> CombinedWriter_init(m.writer, e.writer, a.writer)]

\* rorp.get_ea() and rorp.get_acl(); ExtendedAttributes.empty() and
\* AccessControlLists.is_basic(); the records of the two sidecar logs.
get_ea(rorpath) == rorpath.ea
get_acl(rorpath) == rorpath.acl
ea_empty(ea) == ea.attr_dict = <<>>
is_basic(acl) == acl.entry_list = <<>>
EA2Record(ea) ==
    Chars("# file: ") \o get_indexpath(ea) \o <<LF>>
        \o Concat([i \in DOMAIN ea.attr_dict |-> ea.attr_dict[i] \o <<LF>>])
ACL2Record(acl) ==
    Chars("# file: ") \o get_indexpath(acl) \o <<LF>>
        \o Concat([i \in DOMAIN acl.entry_list |-> acl.entry_list[i] \o <<LF>>])

\* The writer of a slot of st.cw as a flat file [w, d], and st with that
\* flat file put back.  st is [dir |-> the directory, cw |-> the writers].
SlotFile(st, slot) == [w |-> st.cw[slot].w, d |-> st.dir[st.cw[slot].rp]]
WithSlotFile(st, slot, f) ==
    [dir |-> [st.dir EXCEPT ![st.cw[slot].rp] = f.d],
     cw |-> [st.cw EXCEPT ![slot].w = f.w]]

\* writer.write_record(rec) and writer.close() on the writer of a slot;
\* the close ends as [exc, st], exc the exception it raises or "".
slot_write(st, slot, rec, early) ==
    WithSlotFile(st, slot, write_record(SlotFile(st, slot), rec, early))
slot_closed(st, slot, r) == [exc |-> r.exc, st |-> WithSlotFile(st, slot, r.f)]
slot_close(st, slot, early) ==
    Call3(slot_closed, st, slot, FlatFile_close(SlotFile(st, slot), early))

\* CombinedWriter.write_object, the EA writer written whatever the EAs are
write_ea_always(st, rorpath, early) ==
    IF st.cw.eawriter.some
    THEN slot_write(st, "eawriter", EA2Record(get_ea(rorpath)), early)
    ELSE st

\* if self.eawriter and not rorp.get_ea().empty(): ...
write_ea(st, rorpath, early) ==
    IF st.cw.eawriter.some /\ ~ea_empty(get_ea(rorpath))
    THEN slot_write(st, "eawriter", EA2Record(get_ea(rorpath)), early)
    ELSE st

\* if self.aclwriter and not rorp.get_acl().is_basic(): ...
write_acl(st, rorpath, early) ==
    IF st.cw.aclwriter.some /\ ~is_basic(get_acl(rorpath))
    THEN slot_write(st, "aclwriter", ACL2Record(get_acl(rorpath)), early)
    ELSE st

\* self.metawriter.write_object(rorp)
write_meta(st, rorpath, early) ==
    slot_write(st, "metawriter", RORP2Record(rorpath), early)

\* CombinedWriter.write_object
CombinedWriter_write_object(st, rorpath, early) ==
    Call3(write_acl,
          Call3(write_ea, write_meta(st, rorpath, early), rorpath, early),
          rorpath, early)

\* if self.eawriter: self.eawriter.close()
close_if(r, slot, early) ==
    IF r.exc # "" THEN r
    ELSE IF r.st.cw[slot].some THEN slot_close(r.st, slot, early)
    ELSE r

\* CombinedWriter.close with the exceptions of the EA and ACL writers
\* caught and dropped.
close_quiet(r, slot, early) ==
    IF r.st.cw[slot].some
    THEN [exc |-> r.exc, st |-> slot_close(r.st, slot, early).st]
    ELSE r
CombinedWriter_close_quiet(st, early) ==
    Call3(close_quiet,
          Call3(close_quiet, slot_close(st, "metawriter", early), "eawriter", early),
          "aclwriter", early)

\* CombinedWriter.close
CombinedWriter_close(st, early) ==
    Call3(close_if,
          Call3(close_if, slot_close(st, "metawriter", early), "eawriter", early),
          "aclwriter", early)

(***************************************************************************)
(* Manager lookups.  A Manager is [rplist, timerpmap]: the increment files *)
(* of Globals.rbdir listed by __init__, and the same files by time.  A     *)
(* time is modelled by its time string, the key rp.getinctime() is         *)
(* computed from.                                                          *)
(***************************************************************************)
\* The time string of an earlier session.
prevtimestr == "2002-04-15T12:00:00Z"
SessionTimes == {curtimestr, prevtimestr}
IncTypes == {Chars("snapshot"), Chars("dir"), Chars("missing"), Chars("diff"), Chars("data")}

\* rpath.get_incfile_info(basename): name.timestring.ext or
\* name.timestring.ext.gz, the time string one Time.stringtotime accepts.
NoInfo == [isinc |-> FALSE, timestring |-> <<>>, ext |-> <<>>, basestr |-> <<>>]
incfile_info_at(dotsplit, k) ==
    IF k < 3 THEN NoInfo
    ELSE IF dotsplit[k - 1] \notin {Chars(t) : t \in SessionTimes} THEN NoInfo
    ELSE IF dotsplit[k] \notin IncTypes THEN NoInfo
    ELSE [isinc |-> TRUE, timestring |-> dotsplit[k - 1], ext |-> dotsplit[k],
          basestr |-> Join(SubSeq(dotsplit, 1, k - 2), <<".">>)]
get_incfile_info(basename) ==
    LET dotsplit == Split(Chars(basename), ".")
    IN  incfile_info_at(dotsplit,
                        IF dotsplit[Len(dotsplit)] = Chars("gz")
                        THEN Len(dotsplit) - 1 ELSE Len(dotsplit))


\* The names in the data directory of the model: a file that is no
\* increment file and the three logs of two sessions, in name order.
DirOrder ==
    << "chars_to_quote",
       writer_filename(acl_prefix, prevtimestr, "snapshot"),
       writer_filename(acl_prefix, curtimestr, "snapshot"),
       writer_filename(ea_prefix, prevtimestr, "snapshot"),
       writer_filename(ea_prefix, curtimestr, "snapshot"),
       writer_filename(meta_prefix, prevtimestr, "snapshot"),
       writer_filename(meta_prefix, curtimestr, "snapshot") >>

\* The increment information of each name of the directory, as an RPath
\* computes it from its name.
incfile_info == [name \in Range(DirOrder) |-> get_incfile_info(name)]
isincfile(rp) == incfile_info[rp].isinc
getinctime(rp) == incfile_info[rp].timestring
getincbase_str(rp) == incfile_info[rp].basestr

\* Globals.rbdir.listdir(): the names of the files there, in name order or
\* in the opposite order (os.listdir promises no order).
listdir(dir, backwards) ==
    LET names == SelectSeq(DirOrder, LAMBDA name : dir[name].exists)
    IN  IF backwards THEN [i \in DOMAIN names |-> names[Len(names) + 1 - i]] ELSE names

\* The body of the loop of Manager.__init__ for one file name.
Manager_add(self, filename) ==
    IF ~isincfile(filename) THEN self
    ELSE [rplist |-> Append(self.rplist, filename),
          timerpmap |->
              IF Has(self.timerpmap, getinctime(filename))
              THEN [self.timerpmap EXCEPT ![getinctime(filename)] = Append(@, filename)]
              ELSE Put(self.timerpmap, getinctime(filename), <<filename>>)]

RECURSIVE Manager_init_loop(_, _)
Manager_init_loop(self, listing) ==
    IF listing = <<>> THEN self
    ELSE Call2(Manager_init_loop, Manager_add(self, Head(listing)), Tail(listing))

\* Manager.__init__, listing what Globals.rbdir.listdir() returned.
Manager_init(listing) ==
    Manager_init_loop([rplist |-> <<>>, timerpmap |-> EmptyDict], listing)

\* None where an iterator is expected, and iter([]).
NoneIter == [some |-> FALSE, rp |-> ""]
EmptyIter == [some |-> TRUE, rp |-> "iter([])"]

\* The loop of Manager._iter_helper over a time-to-files map: the iterator
\* flatfileclass(rp, 'r').get_objects(restrict_index) of the first file of
\* the time with the prefix, an iterator over the objects of rp.
iter_lookup(map, prefix, time) ==
    IF ~Has(map, time) THEN NoneIter
    ELSE LET hits == SelectSeq(map[time], LAMBDA rp : getincbase_str(rp) = Chars(prefix))
         IN  IF hits = <<>> THEN NoneIter ELSE [some |-> TRUE, rp |-> hits[1]]

\* FlatFile.__init__(rp, 'r') of the class of a prefix: [exc, dir], dir the
\* directory after rp.open("rb", compressed), which creates and changes no
\* file.
flatfile_read(dir, rp, prefix) ==
    IF ~(isincfile(rp) /\ getincbase_str(rp) = Chars(prefix))
    THEN [exc |-> "AssertionError", dir |-> dir]
    ELSE IF ~rp_lstat(dir, rp) THEN [exc |-> "IOError", dir |-> dir]
    ELSE [exc |-> "", dir |-> dir]

\* The directory after _iter_helper has opened the file of the iterator it
\* returns.
opened(dir, it, prefix) ==
    IF it.some THEN flatfile_read(dir, it.rp, prefix).dir ELSE dir

\* An _iter_helper that takes the first file of the time, whatever its
\* prefix.
iter_helper_anyprefix(self, prefix, time) ==
    IF ~Has(self.timerpmap, time) THEN NoneIter
    ELSE [some |-> TRUE, rp |-> self.timerpmap[time][1]]

\* An _iter_helper that lists the directory again at each lookup.
iter_helper_relist(self, prefix, time) ==
    iter_lookup(Manager_init(listdir(rbdir, FALSE)).timerpmap, prefix, time)

\* Manager._iter_helper
iter_helper(self, prefix, time) == iter_lookup(self.timerpmap, prefix, time)

get_meta_at_time(self, time) == iter_helper(self, meta_prefix, time)
get_eas_at_time(self, time) == iter_helper(self, ea_prefix, time)
get_acls_at_time(self, time) == iter_helper(self, acl_prefix, time)

\* The three lookups by name, and the prefix each looks for.
LookupOps == {"get_meta_at_time", "get_eas_at_time", "get_acls_at_time"}
LookupPrefix(op) ==
    CASE op = "get_eas_at_time" -> ea_prefix
      [] op = "get_acls_at_time" -> acl_prefix
      [] OTHER -> meta_prefix
get_at_time(self, op, time) ==
    CASE op = "get_eas_at_time" -> get_eas_at_time(self, time)
      [] op = "get_acls_at_time" -> get_acls_at_time(self, time)
      [] OTHER -> get_meta_at_time(self, time)

\* What a lookup returns: None, or an iterator over the metadata log meta
\* joined (or not) with an iterator of ACLs and one of EAs.
NotJoined == [joined |-> FALSE, from |-> ""]
NoneFound == [some |-> FALSE, meta |-> "", acl |-> NotJoined, ea |-> NotJoined]
Unjoined(it) ==
    IF it.some THEN [some |-> TRUE, meta |-> it.rp, acl |-> NotJoined, ea |-> NotJoined]
    ELSE NoneFound

\* if not acl_iter: acl_iter = iter([]);  join_acl_iter(cur_iter, acl_iter)
JoinWith(it) == [joined |-> TRUE, from |-> IF it.some THEN it.rp ELSE EmptyIter.rp]

\* A GetAtTime that gives up when the log of an active sidecar is missing.
GetAtTime_strict(self, eas, acls, time) ==
    IF \/ ~get_meta_at_time(self, time).some
       \/ acls /\ ~get_acls_at_time(self, time).some
       \/ eas /\ ~get_eas_at_time(self, time).some
    THEN NoneFound
    ELSE [some |-> TRUE, meta |-> get_meta_at_time(self, time).rp,
          acl |-> IF acls THEN JoinWith(get_acls_at_time(self, time)) ELSE NotJoined,
          ea |-> IF eas THEN JoinWith(get_eas_at_time(self, time)) ELSE NotJoined]

\* Manager.GetAtTime
GetAtTime(self, eas, acls, time) ==
    IF ~get_meta_at_time(self, time).some THEN NoneFound
    ELSE [some |-> TRUE, meta |-> get_meta_at_time(self, time).rp,
          acl |-> IF acls THEN JoinWith(get_acls_at_time(self, time)) ELSE NotJoined,
          ea |-> IF eas THEN JoinWith(get_eas_at_time(self, time)) ELSE NotJoined]

(***************************************************************************)
(* Idle values of each group of variables, for the specifications that do  *)
(* not use the group.                                                      *)
(***************************************************************************)
QuoteIdle ==
    /\ path_string = <<>>
    /\ quoted_string = None
    /\ unquoted_string = None
    /\ qpc = "idle"

CodecIdle ==
    /\ rorp = None
    /\ record = None
    /\ decoded = None
    /\ cpc = "idle"

\* No FlatFile, no extractor, no generator.
NoFlatFile == [w |-> [record_buffer |-> <<>>, fileobj |-> NoFileobj], d |-> NewFile]
NoExtractor == [buf |-> <<>>, at_end |-> FALSE, blocksize |-> 0,
                file |-> [data |-> <<>>, pos |-> 0, closed |-> FALSE]]
NoneIndex == <<None>>   \* None where an index is expected
NoGen == [kind |-> "none", index |-> NoneIndex, pc |-> "none", next_pos |-> 0, exc |-> ""]

LogIdle ==
    /\ flatfile = NoFlatFile
    /\ written = <<>>
    /\ extractor = NoExtractor
    /\ gen = NoGen
    /\ yielded = <<>>

PatchIdle ==
    /\ meta_iters = <<>>
    /\ collated = <<>>
    /\ patched = <<>>
    /\ ppc = "idle"

ManagerIdle ==
    /\ eas_active = FALSE
    /\ acls_active = FALSE
    /\ rbdir = <<>>
    /\ writer = NoResult
    /\ wcall = [op |-> "", targets |-> {}]
    /\ wexc = ""
    /\ submitted = <<>>
    /\ wpc = "idle"

NoLookup == [op |-> "", time |-> <<>>]
NoManager == [rplist |-> <<>>, timerpmap |-> EmptyDict]

LookupIdle ==
    /\ manager = NoManager
    /\ built = {}
    /\ lookup = NoLookup
    /\ found = NoneFound

\* The calls of close() on one writer.
MaxCloses == 2

CloseIdle ==
    /\ close_exc = ""
    /\ closes = 0

ParseIdle == bad_records = {}

(***************************************************************************)
(* Specification of quoting: a string is quoted, then unquoted.            *)
(***************************************************************************)
\* The characters of the strings quoted in the model.
QuoteAlphabet == {BS, LF, "n", "a"}
MaxStrLen == 4

QuoteInit ==
    /\ path_string \in SeqsUpTo(QuoteAlphabet, MaxStrLen)
    /\ quoted_string = None
    /\ unquoted_string = None
    /\ qpc = "start"
    /\ preserve_hardlinks = TRUE
    /\ CodecIdle
    /\ LogIdle
    /\ PatchIdle
    /\ ManagerIdle
    /\ LookupIdle
    /\ CloseIdle
    /\ ParseIdle

Quote ==
    /\ qpc = "start"
    /\ quoted_string' = quote_path(path_string)
    /\ qpc' = "quoted"
    /\ UNCHANGED <<path_string, unquoted_string, preserve_hardlinks, codec_vars, log_vars, patch_vars, manager_vars, lookup_vars, close_vars, bad_records>>

Unquote ==
    /\ qpc = "quoted"
    /\ unquoted_string' = unquote_path(quoted_string)
    /\ qpc' = "unquoted"
    /\ UNCHANGED <<path_string, quoted_string, preserve_hardlinks, codec_vars, log_vars, patch_vars, manager_vars, lookup_vars, close_vars, bad_records>>

QuoteNext == Quote \/ Unquote

SpecQuote == QuoteInit /\ [][QuoteNext]_vars

\* C6: for every string s over backslash, LF, n and ordinary characters,
\* unquote_path(quote_path(s)) = s, and quote_path(s) holds no LF.
QuoteRoundTrip ==
    /\ qpc \in {"quoted", "unquoted"}
          => \A i \in 1..Len(quoted_string) : quoted_string[i] # LF
    /\ qpc = "unquoted" => unquoted_string = path_string

\* A string holding a backslash followed by n, after two backslashes in a
\* row, has been quoted and unquoted.
QuoteRoundTripWitness ==
    /\ qpc = "unquoted"
    /\ path_string = <<BS, BS, "n", LF>>
    /\ quoted_string = <<BS, BS, BS, BS, "n", BS, "n">>

(***************************************************************************)
(* Specification of the record codec: an object is encoded by RORP2Record, *)
(* the record decoded by Record2RORP.                                      *)
(***************************************************************************)
CodecIndexes == { <<>>, <<Chars("a"), Chars("b.txt")>>, <<<<"w", LF, BS, "n">>>> }

\* Uname and Gname: absent, empty, ordinary, and the text "None".
CodecNames ==
    { <<None, None>>, <<Chars("alice"), Chars("alice")>>, <<<<>>, Chars("bob")>>,
      <<Chars("alice"), <<>>>>, <<Chars("alice"), Chars("None")>>, <<Chars("None"), None>> }

\* The fields every type but None carries but ModTime.
OwnerDicts ==
    { [uid |-> IF n[1] = None THEN 0 ELSE 1000, gid |-> 1000,
       uname |-> n[1], gname |-> n[2], perms |-> 420] : n \in CodecNames }

WithOpt(dicts, key, values) == dicts \cup {Put(d, key, v) : d \in dicts, v \in values}

RegDicts ==
    LET base == {Put(Put(Put(o, "type", Chars("reg")), "size", sz), "mtime", 1000000) :
                    o \in OwnerDicts, sz \in {0, 17}}
        rf == WithOpt(base, "resourcefork", {<<>>, <<"a", LF>>})
        cf == WithOpt(rf, "carbonfile",
                      {None, <<Chars("aaaz"), <<LF, "z", "a", "a">>, <<10, 0>>, 7>>})
        hl == cf \cup {Put(Put(Put(d, "nlink", 2), "inode", 1234), "devloc", 5) : d \in cf}
    IN  WithOpt(hl, "sha1", {Chars("0a1f")})

OtherDicts ==
    {Put(Put(o, "type", Chars(t)), "mtime", 1000000) :
        o \in OwnerDicts, t \in {"dir", "fifo", "sock"}}
    \cup {Put(Put(o, "type", Chars("sym")), "linkname", l) :
            o \in OwnerDicts, l \in {Chars("../target"), <<"t", LF, BS, "n", BS>>}}
    \cup {Put(Put(o, "type", Chars("dev")), "devnums", dn) :
            o \in OwnerDicts, dn \in {<<"c", 1, 3>>, <<"b", 8, 0>>}}
    \cup {[type |-> None]}

\* The file-metadata objects of section 3 of the specification: each field
\* is present when the table says it applies.
CodecObjects ==
    {[index |-> i, data |-> d] : i \in CodecIndexes, d \in RegDicts \cup OtherDicts}

CodecInit ==
    /\ rorp \in CodecObjects
    /\ preserve_hardlinks \in BOOLEAN
    /\ record = None
    /\ decoded = None
    /\ cpc = "start"
    /\ QuoteIdle
    /\ LogIdle
    /\ PatchIdle
    /\ ManagerIdle
    /\ LookupIdle
    /\ CloseIdle
    /\ ParseIdle

Encode ==
    /\ cpc = "start"
    /\ record' = RORP2Record(rorp)
    /\ cpc' = "encoded"
    /\ UNCHANGED <<rorp, decoded, preserve_hardlinks, quote_vars, log_vars, patch_vars, manager_vars, lookup_vars, close_vars, bad_records>>

Decode ==
    /\ cpc = "encoded"
    /\ decoded' = Record2RORP(record)
    /\ cpc' = "decoded"
    /\ UNCHANGED <<rorp, record, preserve_hardlinks, quote_vars, log_vars, patch_vars, manager_vars, lookup_vars, close_vars, bad_records>>

CodecNext == Encode \/ Decode

SpecCodec == CodecInit /\ [][CodecNext]_vars

\* What decoding makes of a name: the empty name and the text "None" are
\* read back as absent.
NameRead(name) == IF name = <<>> \/ name = Chars("None") THEN None ELSE name

Without(d, keys) == [k \in DOMAIN d \ keys |-> d[k]]

\* The object a record round trip is to give back.
RoundTripOf(m) ==
    LET d  == m.data
        d1 == IF Has(d, "uname")
              THEN [d EXCEPT !.uname = NameRead(@), !.gname = NameRead(@)] ELSE d
        d2 == IF preserve_hardlinks THEN d1 ELSE Without(d1, {"nlink", "inode", "devloc"})
    IN  [exc |-> "", index |-> m.index, data |-> d2]

\* C5 (as amended): Record2RORP(RORP2Record(m)) has the index of m and equals
\* m field by field, except that an empty Uname or Gname (and the name
\* "None") is read back as absent, and that the hardlink fields are kept
\* only when Globals.preserve_hardlinks is set.
RecordRoundTrip == cpc = "decoded" => decoded = RoundTripOf(rorp)

\* A hardlinked regular file with resource fork, carbon file and digest,
\* under a path holding LF and backslash-n, has made the round trip.
RecordRoundTripWitness ==
    /\ cpc = "decoded"
    /\ preserve_hardlinks
    /\ rorp.index = <<<<"w", LF, BS, "n">>>>
    /\ rorp.data.type = Chars("reg")
    /\ Has(rorp.data, "nlink") /\ Has(rorp.data, "sha1")
    /\ Has(rorp.data, "carbonfile") /\ rorp.data.carbonfile # None
    /\ Has(rorp.data, "resourcefork") /\ rorp.data.resourcefork # <<>>
    /\ rorp.data.uname = Chars("alice")
    /\ decoded.data = rorp.data

\* C5 (as claimed): the round trip gives back m itself, an empty name still
\* empty.
RecordRoundTripExact ==
    cpc = "decoded" => decoded = [exc |-> "", index |-> rorp.index, data |-> rorp.data]

\* A name of an object: absent (no value, or None), or empty.
NameAbsent(d, key) == ~Has(d, key) \/ d[key] = None
NameEmptyOrAbsent(d, key) == NameAbsent(d, key) \/ d[key] = <<>>

\* An object whose name key is empty or absent has the line field ":" in
\* its record, and the name is absent in the object read back.
EmptyNameRule(key, field) ==
    NameEmptyOrAbsent(rorp.data, key) =>
        /\ cpc \in {"encoded", "decoded"} =>
               Chars(field) \o <<":">> \in Range(Split(record, LF))
        /\ cpc = "decoded" => decoded.exc = "" /\ NameAbsent(decoded.data, key)

\* C23 (as amended): an object of a type other than None whose Uname (or
\* Gname) is the empty string or absent is encoded with the value ":" on
\* the Uname (Gname) line, and decoding that record gives an object in
\* which the name is absent (None), not the empty string.
EmptyNames ==
    rorp.data.type # None =>
        /\ EmptyNameRule("uname", "  Uname ")
        /\ EmptyNameRule("gname", "  Gname ")

\* An object with the empty Uname and the Gname bob has made the round
\* trip: its Uname is absent and its Gname is bob.
EmptyNamesWitness ==
    /\ cpc = "decoded"
    /\ rorp.data.type = Chars("dir")
    /\ rorp.data.uname = <<>>
    /\ Chars("  Uname :") \in Range(Split(record, LF))
    /\ decoded.data.uname = None
    /\ decoded.data.gname = Chars("bob")

\* C23 (as claimed): the same of every object, of Type None too.
EmptyNamesAnyType ==
    /\ EmptyNameRule("uname", "  Uname ")
    /\ EmptyNameRule("gname", "  Gname ")

(***************************************************************************)
(* Specification of one metadata log: objects are written to a             *)
(* MetadataFile opened 'w', in ascending order of index (invariant I2 of   *)
(* the store), the file is closed, then opened 'r' and iterated, fully or  *)
(* from an index.                                                          *)
(***************************************************************************)
MaxRecords == 3
\* FlatExtractor.blocksize
blocksize == 32 * 1024
\* The block sizes of the model's extractors: the code's, and small ones
\* that cut the model's short logs inside records, lines and keywords.
BlockSizes == {1, 7, 40, blocksize}

Tombstone(i) == [index |-> i, data |-> [type |-> None]]
Owned(d) == [uid |-> 0, uname |-> None, gid |-> 0, gname |-> None, perms |-> 493] @@ d

\* The objects written to the model's logs, in ascending order of index.
LogObjects ==
    << [index |-> <<>>, data |-> Owned([type |-> Chars("dir"), mtime |-> 1])],
       Tombstone(<<Chars("a")>>),
       [index |-> <<Chars("a"), Chars("x")>>,
        data |-> Owned([type |-> Chars("sym"), linkname |-> <<LF>> \o Chars("File b")])],
       [index |-> <<Chars("b")>>,
        data |-> Owned([type |-> Chars("reg"), size |-> 17, mtime |-> 1000])],
       Tombstone(<<<<"b", LF>> \o Chars("File c")>>) >>

\* The arguments of get_objects: None for the whole log, or an index.
RestrictIndexes ==
    { NoneIndex, <<Chars("a")>>, <<Chars("a"), Chars("x")>>, <<Chars("b")>>,
      <<Chars("0")>>, <<Chars("ab")>>, <<Chars("c")>> }

LogInit ==
    /\ flatfile = [w |-> NewWriter(TRUE), d |-> NewFile]
    /\ written = <<>>
    /\ extractor = NoExtractor
    /\ gen = NoGen
    /\ yielded = <<>>
    /\ preserve_hardlinks = TRUE
    /\ QuoteIdle
    /\ CodecIdle
    /\ PatchIdle
    /\ ManagerIdle
    /\ LookupIdle
    /\ CloseIdle
    /\ ParseIdle

\* writer.write_object(obj), obj after every object written so far.
WriteObject(k, early) ==
    /\ flatfile.w.fileobj.open
    /\ Len(written) < MaxRecords
    /\ IF written = <<>> THEN TRUE
       ELSE IndexLess(written[Len(written)].index, LogObjects[k].index)
    /\ flatfile' = write_object(flatfile, LogObjects[k], early)
    /\ written' = Append(written, LogObjects[k])
    /\ UNCHANGED <<extractor, gen, yielded, preserve_hardlinks, quote_vars, codec_vars, patch_vars, manager_vars, lookup_vars, close_vars, bad_records>>

\* writer.close()
CloseWriter(early) ==
    /\ flatfile.w.fileobj.open
    /\ flatfile' = FlatFile_close(flatfile, early).f
    /\ UNCHANGED <<written, extractor, gen, yielded, preserve_hardlinks, quote_vars, codec_vars, patch_vars, manager_vars, lookup_vars, close_vars, bad_records>>

\* MetadataFile(rp, 'r').get_objects(restrict_index) on the closed log:
\* FlatExtractor.__init__ on the opened file, and the generator of iterate()
\* or of iterate_starting_with(restrict_index), not yet started.
GetObjects(restrict_index, bs) ==
    /\ ~flatfile.w.fileobj.open
    /\ gen = NoGen
    /\ extractor' = [buf |-> <<>>, at_end |-> FALSE, blocksize |-> bs,
                     file |-> [data |-> flatfile.d.data, pos |-> 0, closed |-> FALSE]]
    /\ gen' = [kind |-> IF restrict_index = NoneIndex \/ restrict_index = <<>>
                        THEN "iterate" ELSE "iterate_starting_with",
               index |-> restrict_index, pc |-> "start", next_pos |-> 0, exc |-> ""]
    /\ UNCHANGED <<flatfile, written, yielded, preserve_hardlinks, quote_vars, codec_vars, patch_vars, manager_vars, lookup_vars, close_vars, bad_records>>

\* The outcome of the consumer's next() on the generator.
gen_next ==
    IF gen.kind = "iterate"
    THEN IF gen.pc = "start" THEN iterate_loop(extractor)
         ELSE iterate_resume(extractor, gen.next_pos)
    ELSE IF gen.pc = "start" THEN starting_with_start(extractor, gen.index)
         ELSE starting_with_resume(extractor, gen.next_pos, gen.index)

\* next() on the generator: it runs to its next yield, its end or an
\* exception.
IterNext ==
    /\ gen.pc \in {"start", "yielded"}
    /\ \E out \in {gen_next} :
           /\ extractor' = out.ex
           /\ gen' = [gen EXCEPT !.pc = IF out.how = "yield" THEN "yielded"
                                        ELSE IF out.how = "stop" THEN "done" ELSE "raised",
                                 !.next_pos = out.next_pos,
                                 !.exc = out.exc]
           /\ yielded' = IF out.how = "yield" THEN Append(yielded, out.obj) ELSE yielded
    /\ UNCHANGED <<flatfile, written, preserve_hardlinks, quote_vars, codec_vars, patch_vars, manager_vars, lookup_vars, close_vars, bad_records>>

LogNext ==
    \/ \E k \in DOMAIN LogObjects, early \in BOOLEAN : WriteObject(k, early)
    \/ \E early \in BOOLEAN : CloseWriter(early)
    \/ \E r \in RestrictIndexes, bs \in BlockSizes : GetObjects(r, bs)
    \/ IterNext

SpecExtract == LogInit /\ [][LogNext]_vars

\* The object Record2RORP returns for a written object.
AsRead(obj) == [exc |-> "", index |-> obj.index, data |-> obj.data]
AllAsRead(objs) == [i \in DOMAIN objs |-> AsRead(objs[i])]
IsPrefixOf(a, b) == Len(a) <= Len(b) /\ a = SubSeq(b, 1, Len(a))

\* C1: full iteration of a closed log of n >= 0 written objects never
\* raises, yields objects equal to the written ones in write order, and has
\* yielded exactly the n of them when it ends, whatever the block size.
StreamingEquivalence ==
    gen.kind = "iterate"
        => /\ gen.pc # "raised"
           /\ IsPrefixOf(yielded, AllAsRead(written))
           /\ gen.pc = "done" => yielded = AllAsRead(written)

\* The same for the logs of at least one record.
StreamingEquivalenceNonEmpty ==
    (gen.kind = "iterate" /\ written # <<>>)
        => /\ gen.pc # "raised"
           /\ IsPrefixOf(yielded, AllAsRead(written))
           /\ gen.pc = "done" => yielded = AllAsRead(written)

\* C2: on a log in ascending order of index, iterate_starting_with(p) never
\* raises and yields exactly the written objects whose index has p as a
\* prefix, in write order, whatever the block size.
PrefixRestriction ==
    gen.kind = "iterate_starting_with"
        => LET expected == SelectSeq(AllAsRead(written),
                                     LAMBDA o : HasPrefix(o.index, gen.index))
           IN  /\ gen.pc # "raised"
               /\ IsPrefixOf(yielded, expected)
               /\ gen.pc = "done" => yielded = expected

\* The log of a, a/x and b has been restricted to a with blocks of 7 bytes:
\* the two objects under a were yielded and the iteration ended at b.
PrefixRestrictionWitness ==
    /\ gen.kind = "iterate_starting_with" /\ gen.pc = "done"
    /\ gen.index = <<Chars("a")>>
    /\ extractor.blocksize = 7
    /\ Len(written) = 3 /\ written[3].index = <<Chars("b")>>
    /\ Len(yielded) = 2 /\ yielded[2].index = <<Chars("a"), Chars("x")>>

(***************************************************************************)
(* Specification of patch: the iterators are given newest first, as        *)
(* position 1 (meta_iters[0] in the code) to position Len(meta_iters),     *)
(* the oldest; each holds, for each index, nothing, a live object or a     *)
(* tombstone.                                                              *)
(***************************************************************************)
MaxIters == 3
PatchIndexes == {<<Chars("a")>>, <<Chars("x")>>}

\* The object of the iterator at position i for an index: its ModTime tells
\* the iterators apart.
PatchRorp(index, kind, i) ==
    IF kind = "dead" THEN Tombstone(index)
    ELSE [index |-> index, data |-> Owned([type |-> Chars("reg"), size |-> 17, mtime |-> i])]

\* The iterator at position i that holds, in ascending order, the indexes
\* that have[index] is not "absent" for.
PatchIter(have, i) ==
    LET indexes == SortIndexes({x \in PatchIndexes : have[x] # "absent"})
    IN  [k \in DOMAIN indexes |-> PatchRorp(indexes[k], have[indexes[k]], i)]

PatchInit ==
    /\ \E n \in 1..MaxIters :
         \E have \in [1..n -> [PatchIndexes -> {"absent", "live", "dead"}]] :
            meta_iters = [i \in 1..n |-> PatchIter(have[i], i)]
    /\ collated = <<>>
    /\ patched = <<>>
    /\ ppc = "start"
    /\ preserve_hardlinks = TRUE
    /\ QuoteIdle
    /\ CodecIdle
    /\ LogIdle
    /\ ManagerIdle
    /\ LookupIdle
    /\ CloseIdle
    /\ ParseIdle

\* next() on patch(*meta_iters).
PatchNext ==
    /\ ppc \in {"start", "yielded"}
    /\ LET out == patch_next(IF ppc = "start" THEN CollateIterators(meta_iters) ELSE collated)
       IN  /\ collated' = out.rest
           /\ patched' = IF out.how = "yield" THEN Append(patched, out.obj) ELSE patched
           /\ ppc' = IF out.how = "yield" THEN "yielded"
                     ELSE IF out.how = "stop" THEN "done" ELSE "raised"
    /\ UNCHANGED <<meta_iters, preserve_hardlinks, quote_vars, codec_vars, log_vars, manager_vars, lookup_vars, close_vars, bad_records>>

SpecPatch == PatchInit /\ [][PatchNext]_vars

\* The positions whose iterator holds an object for the index.
Holders(index) == {i \in DOMAIN meta_iters : AtIndex(meta_iters[i], index) # NoRorp}
Max(S) == CHOOSE x \in S : \A y \in S : x >= y
Newest(index) == AtIndex(meta_iters[Min(Holders(index))], index)
Oldest(index) == AtIndex(meta_iters[Max(Holders(index))], index)
Yielded(index) == \E k \in DOMAIN patched : patched[k].index = index

\* C3 (as claimed): an index whose newest record (lowest position) is a
\* tombstone is never yielded.
TombstoneNewest ==
    ppc # "idle" =>
        \A x \in PatchIndexes :
            (Holders(x) # {} /\ ~lstat(Newest(x))) => ~Yielded(x)

\* C3 (as amended): an index whose oldest record, the one of the last
\* iterator that holds the index, is a tombstone is never yielded, even
\* when a newer iterator holds a live record for it.
TombstoneOldest ==
    ppc # "idle" =>
        \A x \in PatchIndexes :
            (Holders(x) # {} /\ ~lstat(Oldest(x))) => ~Yielded(x)

\* patch has ended on iterators where x is live in the newest and a
\* tombstone in the oldest, and a is live: a was yielded, x was not.
TombstoneOldestWitness ==
    /\ ppc = "done"
    /\ Len(meta_iters) = 2
    /\ Holders(<<Chars("x")>>) = {1, 2}
    /\ lstat(Newest(<<Chars("x")>>)) /\ ~lstat(Oldest(<<Chars("x")>>))
    /\ Yielded(<<Chars("a")>>) /\ ~Yielded(<<Chars("x")>>)

\* C4 (as claimed): what is yielded for an index is the record of the
\* newest iterator (lowest position) that holds it.
SelectNewest ==
    ppc # "idle" => \A k \in DOMAIN patched : patched[k] = Newest(patched[k].index)

\* C4 (as amended): patch scans the slots of a tuple from the last position
\* (the oldest input) towards position 0 and yields the first record it
\* meets when its type is not None: every record yielded is the live record
\* of the last iterator that holds its index, never the record of a newer
\* slot when an older slot holds one, and at the end every index whose
\* last record is live has been yielded, once, in ascending order.
SelectOldest ==
    ppc # "idle" =>
        /\ \A k \in DOMAIN patched :
              /\ patched[k] = Oldest(patched[k].index)
              /\ lstat(patched[k])
        /\ \A j, k \in DOMAIN patched : j < k => IndexLess(patched[j].index, patched[k].index)
        /\ ppc # "raised"
        /\ ppc = "done" =>
              \A x \in PatchIndexes : (Holders(x) # {} /\ lstat(Oldest(x))) => Yielded(x)

\* patch has yielded, for a, the record of the third iterator though the
\* first holds a record for a as well.
SelectOldestWitness ==
    /\ ppc \in {"yielded", "done"}
    /\ Len(meta_iters) = 3
    /\ Holders(<<Chars("a")>>) = {1, 3}
    /\ patched # <<>> /\ patched[1] = Oldest(<<Chars("a")>>)
    /\ patched[1] # Newest(<<Chars("a")>>)

\* The events of the descriptor of the log that follow its fsync.
AfterFsync(log) ==
    {j \in DOMAIN log : \E i \in DOMAIN log : i < j /\ log[i] = "fsync"}

\* C7: when close() has returned, every byte of the log was handed to the
\* descriptor before the fsync: no write of log bytes, of records or of the
\* gzip trailer, follows the fsync.
DurableOnClose ==
    ~flatfile.w.fileobj.open =>
        \A j \in AfterFsync(flatfile.d.log) : flatfile.d.log[j] \notin {"write", "trailer"}

(***************************************************************************)
(* Specification of the writers: in a data directory where each log of the *)
(* session is there already or not, a writer is created (by GetWriter, by  *)
(* one of the get_xx_writer functions, by FlatFile(rp, 'w') or by          *)
(* composing a CombinedWriter), objects are written and it is closed.      *)
(***************************************************************************)
Prefixes == {meta_prefix, ea_prefix, acl_prefix}
CloseOrderOf == <<"metawriter", "eawriter", "aclwriter">>
Slots == Range(CloseOrderOf)
LogPath(prefix) == writer_filename(prefix, curtimestr, "snapshot")
LogPaths == {LogPath(prefix) : prefix \in Prefixes}

\* The logs a call creates when EAs and ACLs are written or not.
Targets(eas, acls) ==
    {LogPath(meta_prefix)} \cup (IF eas THEN {LogPath(ea_prefix)} ELSE {})
                           \cup (IF acls THEN {LogPath(acl_prefix)} ELSE {})

ManagerRorp(name, attrs, entries) ==
    [index |-> <<Chars(name)>>,
     data |-> Owned([type |-> Chars("reg"), size |-> 1, mtime |-> 1]),
     ea |-> [index |-> <<Chars(name)>>, attr_dict |-> attrs],
     acl |-> [index |-> <<Chars(name)>>, entry_list |-> entries]]

\* The objects given to the writers, in ascending order of index: with and
\* without EAs, with a basic ACL and with another.
ManagerObjects ==
    << ManagerRorp("a", <<>>, <<>>),
       ManagerRorp("b", <<Chars("user.k=0sdg==")>>, <<>>),
       ManagerRorp("c", <<>>, <<Chars("user:joe:rwx")>>),
       ManagerRorp("d", <<Chars("user.k")>>, <<Chars("group:7:r--")>>) >>

NoCall == [op |-> "", targets |-> {}]

ManagerInit ==
    /\ eas_active \in BOOLEAN
    /\ acls_active \in BOOLEAN
    /\ rbdir \in [LogPaths -> {NoPath, OldFile}]
    /\ writer = NoResult
    /\ wcall = NoCall
    /\ wexc = ""
    /\ submitted = <<>>
    /\ wpc = "start"
    /\ preserve_hardlinks = TRUE
    /\ QuoteIdle
    /\ CodecIdle
    /\ LogIdle
    /\ PatchIdle
    /\ LookupIdle
    /\ CloseIdle
    /\ ParseIdle

\* The call op, creating the logs targets, ends as out: [exc, dir, result].
Returns(op, targets, out) ==
    /\ rbdir' = out.dir
    /\ writer' = out.result
    /\ wexc' = out.exc
    /\ wcall' = [op |-> op, targets |-> targets]
    /\ wpc' = IF out.exc = "" THEN "open" ELSE "raised"
    /\ UNCHANGED <<eas_active, acls_active, submitted, preserve_hardlinks,
                   quote_vars, codec_vars, log_vars, patch_vars, lookup_vars, close_vars, bad_records>>

\* Manager().GetWriter()
CallGetWriter ==
    /\ wpc = "start"
    /\ \E out \in {GetWriter(rbdir, eas_active, acls_active, "snapshot", curtimestr)} :
           Returns("GetWriter", Targets(eas_active, acls_active), out)

\* Manager().get_meta_writer / get_ea_writer / get_acl_writer('snapshot', None)
CallGetOneWriter(prefix) ==
    /\ wpc = "start"
    /\ \E out \in {writer_helper(rbdir, prefix, "snapshot", curtimestr)} :
           Returns("get_writer", {LogPath(prefix)},
                   [exc |-> out.exc, dir |-> out.dir,
                    result |-> IF out.exc = "" THEN BareWriter(prefix, out.writer)
                               ELSE NoResult])

\* MetadataFile(rp, 'w'), or the class of another prefix, on the log path
OpenFlatFile(prefix) ==
    /\ wpc = "start"
    /\ \E out \in {FlatFile_init(rbdir, LogPath(prefix))} :
           Returns("FlatFile", {LogPath(prefix)},
                   [exc |-> out.exc, dir |-> out.dir,
                    result |-> IF out.exc = "" THEN BareWriter(prefix, out.writer)
                               ELSE NoResult])

\* CombinedWriter(metawriter, eawriter or None, aclwriter or None)
Compose(has_ea, has_acl) ==
    /\ wpc = "start"
    /\ \E out \in {ComposeWriter(rbdir, has_ea, has_acl, "snapshot", curtimestr)} :
           Returns("CombinedWriter", Targets(has_ea, has_acl), out)

\* writer.write_object(obj) on a CombinedWriter or on a bare MetadataFile,
\* obj after every object written so far.
SubmitObject(k, early) ==
    /\ wpc = "open"
    /\ writer.metawriter.some
    /\ Len(submitted) < MaxRecords
    /\ IF submitted = <<>> THEN TRUE
       ELSE IndexLess(submitted[Len(submitted)].index, ManagerObjects[k].index)
    /\ \E out \in {IF writer.kind = "CombinedWriter"
                   THEN CombinedWriter_write_object([dir |-> rbdir, cw |-> writer],
                                                    ManagerObjects[k], early)
                   ELSE write_meta([dir |-> rbdir, cw |-> writer], ManagerObjects[k], early)} :
           /\ rbdir' = out.dir
           /\ writer' = out.cw
    /\ submitted' = Append(submitted, ManagerObjects[k])
    /\ UNCHANGED <<eas_active, acls_active, wcall, wexc, wpc, preserve_hardlinks,
                   quote_vars, codec_vars, log_vars, patch_vars, lookup_vars, close_vars, bad_records>>

\* writer.close() on a CombinedWriter or on a bare FlatFile, of a writer
\* that is open or was closed, wholly or in part, before.
CloseManaged(early) ==
    /\ wpc \in {"open", "closing", "closed", "failed"}
    /\ closes < MaxCloses
    /\ \E out \in {IF writer.kind = "CombinedWriter"
                   THEN CombinedWriter_close([dir |-> rbdir, cw |-> writer], early)
                   ELSE Call3(close_if,
                              Call3(close_if,
                                    close_if([exc |-> "", st |-> [dir |-> rbdir, cw |-> writer]],
                                             "metawriter", early),
                                    "eawriter", early),
                              "aclwriter", early)} :
           /\ rbdir' = out.st.dir
           /\ writer' = out.st.cw
           /\ close_exc' = out.exc
           /\ wpc' = IF out.exc = "" THEN "closed" ELSE "failed"
    /\ closes' = closes + 1
    /\ UNCHANGED <<eas_active, acls_active, wcall, wexc, submitted, preserve_hardlinks,
                   quote_vars, codec_vars, log_vars, patch_vars, lookup_vars, bad_records>>

\* writer.eawriter.close(), or the close of another writer of an open
\* CombinedWriter, by the holder of the writer.
CloseSub(slot, early) ==
    /\ wpc \in {"open", "closing"}
    /\ writer.kind = "CombinedWriter"
    /\ writer[slot].some
    /\ writer[slot].w.fileobj.open
    /\ \E out \in {slot_close([dir |-> rbdir, cw |-> writer], slot, early)} :
           /\ rbdir' = out.st.dir
           /\ writer' = out.st.cw
    /\ wpc' = "closing"
    /\ UNCHANGED <<eas_active, acls_active, wcall, wexc, submitted, preserve_hardlinks,
                   quote_vars, codec_vars, log_vars, patch_vars, lookup_vars, close_vars, bad_records>>

ManagerNext ==
    \/ CallGetWriter
    \/ \E prefix \in Prefixes : CallGetOneWriter(prefix)
    \/ \E prefix \in Prefixes : OpenFlatFile(prefix)
    \/ \E has_ea \in BOOLEAN, has_acl \in BOOLEAN : Compose(has_ea, has_acl)
    \/ \E k \in DOMAIN ManagerObjects, early \in BOOLEAN : SubmitObject(k, early)
    \/ \E early \in BOOLEAN : CloseManaged(early)
    \/ \E slot \in Slots, early \in BOOLEAN : CloseSub(slot, early)

SpecManager == ManagerInit /\ [][ManagerNext]_vars

\* C8: a file that was in the data directory before the session is never
\* opened or modified, and a call that creates a writer (GetWriter, a
\* get_xx_writer function, FlatFile(rp, 'w'), a composed CombinedWriter)
\* fails with AssertionError, returning no writer, whenever a file exists at
\* one of its target log paths; no file that exists when the call starts is
\* touched by it.
RefuseOverwrite ==
    [][ /\ \A p \in DOMAIN rbdir : rbdir[p] = OldFile => rbdir'[p] = OldFile
        /\ (wpc = "start" /\ wpc' # "start") =>
              /\ \A p \in DOMAIN rbdir : rbdir[p].exists => rbdir'[p] = rbdir[p]
              /\ (\E p \in wcall'.targets : rbdir[p].exists) =>
                     (wexc' = "AssertionError" /\ writer' = NoResult) ]_vars

\* GetWriter with EAs and ACLs active found the EA log in place: it failed
\* after creating the metadata log, and the EA log is as it was.
RefuseOverwriteWitness ==
    /\ wcall.op = "GetWriter"
    /\ wcall.targets = LogPaths
    /\ wexc = "AssertionError"
    /\ writer = NoResult
    /\ rbdir[LogPath(meta_prefix)].log = <<"open">>
    /\ rbdir[LogPath(ea_prefix)] = OldFile

\* C9: when none of its target logs was in the directory, GetWriter does
\* not fail in any combination of eas_active and acls_active; it returns
\* the bare metadata writer when neither is active and otherwise a
\* CombinedWriter with a sub-writer exactly for each active sidecar.
GetWriterTotal ==
    (wcall.op = "GetWriter" /\ \A p \in wcall.targets : rbdir[p] # OldFile) =>
        /\ wexc = ""
        /\ writer.kind = IF eas_active \/ acls_active THEN "CombinedWriter" ELSE "FlatFile"
        /\ writer.metawriter.some
        /\ writer.eawriter.some <=> eas_active
        /\ writer.aclwriter.some <=> acls_active

\* The bytes given so far to the writer of a slot: those of its file, those
\* its stream holds and those of its record buffer.
Contents(slot) ==
    rbdir[writer[slot].rp].data \o writer[slot].w.fileobj.held
        \o Concat(writer[slot].w.record_buffer)

\* The records of the objects of objs that qualify, in order.
RecordsOf(objs, Qualifies(_), ToRecord(_)) ==
    LET sel == SelectSeq(objs, Qualifies)
    IN  Concat([i \in DOMAIN sel |-> ToRecord(sel[i])])

HasEA(obj) == ~ea_empty(get_ea(obj))
HasACL(obj) == ~is_basic(get_acl(obj))
EARecordOf(obj) == EA2Record(get_ea(obj))
ACLRecordOf(obj) == ACL2Record(get_acl(obj))

\* C10: at every moment the metadata log of a CombinedWriter holds one
\* record per object written, in order; its EA log, when there is an EA
\* writer, holds the EA records of exactly the objects whose EA set is not
\* empty, in the same order, and its ACL log, when there is an ACL writer,
\* the ACL records of exactly the objects whose ACL is not basic; without
\* such a writer nothing is written to the sidecar log.  When the writer is
\* closed these bytes are the content of the files.
CombinedRouting ==
    writer.kind = "CombinedWriter" =>
        /\ Contents("metawriter") = RecordsOf(submitted, LAMBDA o : TRUE, RORP2Record)
        /\ IF writer.eawriter.some
           THEN Contents("eawriter") = RecordsOf(submitted, HasEA, EARecordOf)
           ELSE rbdir[LogPath(ea_prefix)] \in {NoPath, OldFile}
        /\ IF writer.aclwriter.some
           THEN Contents("aclwriter") = RecordsOf(submitted, HasACL, ACLRecordOf)
           ELSE rbdir[LogPath(acl_prefix)] \in {NoPath, OldFile}
        /\ wpc = "closed" =>
              \A slot \in {"metawriter", "eawriter", "aclwriter"} :
                  writer[slot].some =>
                      rbdir[writer[slot].rp].data = Contents(slot)

\* A CombinedWriter with an EA writer and no ACL writer was given an object
\* without EAs, one with EAs and one with EAs and an ACL, and closed.
CombinedRoutingWitness ==
    /\ writer.kind = "CombinedWriter"
    /\ writer.eawriter.some /\ ~writer.aclwriter.some
    /\ wpc = "closed"
    /\ submitted = <<ManagerObjects[1], ManagerObjects[2], ManagerObjects[4]>>
    /\ rbdir[LogPath(ea_prefix)].data =
           EA2Record(ManagerObjects[2].ea) \o EA2Record(ManagerObjects[4].ea)
    /\ rbdir[LogPath(acl_prefix)] = NoPath

(***************************************************************************)
(* Specification of the lookups: a Manager is built on a data directory    *)
(* holding some of the logs of two sessions; then come lookups by time,    *)
(* logs created by the Manager's GetWriter or by another writer, and new   *)
(* Managers.                                                               *)
(***************************************************************************)
IncNames == {DirOrder[i] : i \in 2..Len(DirOrder)}
LookupTimes == {Chars(t) : t \in SessionTimes}
\* The names of the files of a directory.
Present(dir) == {name \in DOMAIN dir : dir[name].exists}

LookupInit ==
    /\ eas_active \in BOOLEAN
    /\ acls_active \in BOOLEAN
    /\ \E dir \in [IncNames -> {NoPath, OldFile}] :
           rbdir = dir @@ (DirOrder[1] :> OldFile)
    /\ \E backwards \in BOOLEAN : manager = Manager_init(listdir(rbdir, backwards))
    /\ built = Present(rbdir)
    /\ lookup = NoLookup
    /\ found = NoneFound
    /\ writer = NoResult
    /\ wcall = NoCall
    /\ wexc = ""
    /\ submitted = <<>>
    /\ wpc = "start"
    /\ preserve_hardlinks = TRUE
    /\ QuoteIdle
    /\ CodecIdle
    /\ LogIdle
    /\ PatchIdle
    /\ CloseIdle
    /\ ParseIdle

\* manager.GetAtTime(time)
CallGetAtTime(time) ==
    /\ lookup' = [op |-> "GetAtTime", time |-> time]
    /\ found' = GetAtTime(manager, eas_active, acls_active, time)
    /\ UNCHANGED <<manager, built, manager_vars, preserve_hardlinks,
                   quote_vars, codec_vars, log_vars, patch_vars, close_vars, bad_records>>

\* manager.get_meta_at_time(time, None), get_eas_at_time(time, None) or
\* get_acls_at_time(time, None)
CallGetOneAtTime(op, time) ==
    /\ lookup' = [op |-> op, time |-> time]
    /\ \E it \in {get_at_time(manager, op, time)} :
           /\ found' = Unjoined(it)
           /\ rbdir' = opened(rbdir, it, LookupPrefix(op))
    /\ UNCHANGED <<manager, built, eas_active, acls_active, writer, wcall, wexc,
                   submitted, wpc, preserve_hardlinks,
                   quote_vars, codec_vars, log_vars, patch_vars, close_vars, bad_records>>

\* Another writer (another process, another Manager) creates a log of the
\* current session.
OtherWriter(name) ==
    /\ ~rbdir[name].exists
    /\ rbdir' = rp_open_wb(rbdir, name)
    /\ UNCHANGED <<eas_active, acls_active, writer, wcall, wexc, submitted, wpc,
                   lookup_vars, preserve_hardlinks,
                   quote_vars, codec_vars, log_vars, patch_vars, close_vars, bad_records>>

\* manager = Manager(): a new Manager lists the directory as it is now.
NewManager(backwards) ==
    /\ manager' = Manager_init(listdir(rbdir, backwards))
    /\ built' = Present(rbdir)
    /\ lookup' = NoLookup
    /\ found' = NoneFound
    /\ UNCHANGED <<manager_vars, preserve_hardlinks,
                   quote_vars, codec_vars, log_vars, patch_vars, close_vars, bad_records>>

LookupNext ==
    \/ \E time \in LookupTimes : CallGetAtTime(time)
    \/ \E op \in LookupOps, time \in LookupTimes : CallGetOneAtTime(op, time)
    \/ CallGetWriter
    \/ \E name \in LogPaths : OtherWriter(name)
    \/ \E backwards \in BOOLEAN : NewManager(backwards)

SpecLookup == LookupInit /\ [][LookupNext]_vars

\* The time-group of a time in the Manager's map, and its logs of a prefix.
TimeGroup(time) ==
    IF Has(manager.timerpmap, time) THEN Range(manager.timerpmap[time]) ELSE {}
GroupLogs(time, prefix) ==
    {rp \in TimeGroup(time) : getincbase_str(rp) = Chars(prefix)}

\* What GetAtTime joined for a sidecar: nothing when the sidecar is not
\* active, else the log of the time-group, or iter([]) when it has none.
JoinedAsDue(join, active, logs) ==
    IF ~active THEN join = NotJoined
    ELSE /\ join.joined
         /\ IF logs = {} THEN join.from = EmptyIter.rp ELSE join.from \in logs

\* C11: GetAtTime(time) returns None exactly when the time-group of the
\* time holds no mirror_metadata log, whatever EA and ACL logs it holds;
\* otherwise it returns the iterator of the metadata log, joined with the
\* iterator of each active sidecar, an empty iterator standing for a
\* sidecar log the time-group lacks.
AbsentIffNoMetadata ==
    lookup.op = "GetAtTime" =>
        /\ found.some <=> GroupLogs(lookup.time, meta_prefix) # {}
        /\ found.some =>
              /\ found.meta \in GroupLogs(lookup.time, meta_prefix)
              /\ JoinedAsDue(found.acl, acls_active, GroupLogs(lookup.time, acl_prefix))
              /\ JoinedAsDue(found.ea, eas_active, GroupLogs(lookup.time, ea_prefix))

\* With EAs and ACLs active, GetAtTime found the metadata log and the EA
\* log of the time and no ACL log: it returned the iterator joined with the
\* EA log and with an empty ACL iterator.
AbsentIffNoMetadataWitness ==
    /\ lookup.op = "GetAtTime"
    /\ eas_active /\ acls_active
    /\ GroupLogs(lookup.time, acl_prefix) = {}
    /\ GroupLogs(lookup.time, ea_prefix) # {}
    /\ found.some
    /\ found.acl = [joined |-> TRUE, from |-> "iter([])"]
    /\ found.ea.from \in GroupLogs(lookup.time, ea_prefix)

\* The increment files of a set of names with a time.
BuiltAt(time) == {rp \in built : isincfile(rp) /\ getinctime(rp) = time}

\* C12: the Manager's map holds, by time, exactly the increment files that
\* were in the directory when the Manager was built, whatever lookups were
\* made and whatever logs were created since; and a lookup finds the
\* metadata log of a time exactly when it was there at that moment, so a
\* log created afterwards is not found.
SnapshotFixed ==
    /\ Range(manager.rplist) = {rp \in built : isincfile(rp)}
    /\ DOMAIN manager.timerpmap = {time \in LookupTimes : BuiltAt(time) # {}}
    /\ \A time \in LookupTimes : TimeGroup(time) = BuiltAt(time)
    /\ \A time \in DOMAIN manager.timerpmap :
           Len(manager.timerpmap[time]) = Cardinality(BuiltAt(time))
    /\ lookup.op # "" =>
           (found.some <=> \E rp \in BuiltAt(lookup.time) :
                               getincbase_str(rp) = Chars(LookupPrefix(lookup.op)))

\* The Manager's own GetWriter created the metadata log of the current
\* time after the Manager was built; GetAtTime for that time returned None.
SnapshotFixedWitness ==
    /\ wcall.op = "GetWriter" /\ wexc = ""
    /\ lookup = [op |-> "GetAtTime", time |-> Chars(curtimestr)]
    /\ rbdir[writer_filename(meta_prefix, curtimestr, "snapshot")].exists
    /\ writer_filename(meta_prefix, curtimestr, "snapshot") \notin built
    /\ ~found.some

(***************************************************************************)
(* Specification of one flat file writer: objects are written, and close() *)
(* is called, also on the closed writer.                                   *)
(***************************************************************************)
MaxWrites == 5

FlatInit ==
    /\ \E gz \in BOOLEAN : flatfile = [w |-> NewWriter(gz), d |-> NewFile]
    /\ written = <<>>
    /\ extractor = NoExtractor
    /\ gen = NoGen
    /\ yielded = <<>>
    /\ close_exc = ""
    /\ closes = 0
    /\ preserve_hardlinks = TRUE
    /\ QuoteIdle
    /\ CodecIdle
    /\ PatchIdle
    /\ ManagerIdle
    /\ LookupIdle
    /\ ParseIdle

\* writer.write_object(obj), obj after every object written so far.
FlatWrite(k, early) ==
    /\ flatfile.w.fileobj.open
    /\ Len(written) < MaxWrites
    /\ IF written = <<>> THEN TRUE
       ELSE IndexLess(written[Len(written)].index, LogObjects[k].index)
    /\ flatfile' = write_object(flatfile, LogObjects[k], early)
    /\ written' = Append(written, LogObjects[k])
    /\ UNCHANGED <<extractor, gen, yielded, close_exc, closes, preserve_hardlinks,
                   quote_vars, codec_vars, patch_vars, manager_vars, lookup_vars, bad_records>>

\* writer.close(), on the open writer or on the closed one
FlatClose(early) ==
    /\ closes < MaxCloses
    /\ \E out \in {FlatFile_close(flatfile, early)} :
           /\ flatfile' = out.f
           /\ close_exc' = out.exc
    /\ closes' = closes + 1
    /\ UNCHANGED <<written, extractor, gen, yielded, preserve_hardlinks,
                   quote_vars, codec_vars, patch_vars, manager_vars, lookup_vars, bad_records>>

FlatNext ==
    \/ \E k \in DOMAIN LogObjects, early \in BOOLEAN : FlatWrite(k, early)
    \/ \E early \in BOOLEAN : FlatClose(early)

SpecFlatFile == FlatInit /\ [][FlatNext]_vars

\* The calls made on the stream and on its descriptor among the events of
\* a log.
CallsIn(log) == SelectSeq(log, LAMBDA ev : ev \in {"stream.write", "fsync", "stream.close"})

\* C13: close() on a FlatFile that is closed already fails with the
\* assertion and does nothing else: no stream write, no fsync, no stream
\* close, and the writer and its file are as they were.
DoubleCloseFails ==
    [][ (closes' = closes + 1 /\ ~flatfile.w.fileobj.open) =>
            (close_exc' = "AssertionError" /\ flatfile' = flatfile) ]_vars

\* Objects were written, the writer was closed and close() was called
\* again: it raised, and the log of the file still ends with the one close.
DoubleCloseFailsWitness ==
    /\ closes = 2
    /\ close_exc = "AssertionError"
    /\ written # <<>>
    /\ CallsIn(flatfile.d.log)[Len(CallsIn(flatfile.d.log))] = "stream.close"
    /\ Cardinality({i \in DOMAIN flatfile.d.log : flatfile.d.log[i] = "stream.close"}) = 1

\* C15: close() on an open FlatFile makes, in this order, one stream write
\* of the records of the batch when there are any, the fsync of the
\* descriptor under the stream, and the close of the stream; it raises
\* nothing, and afterwards the batch is empty, the writer holds no stream
\* and the file holds every byte given to the stream and the batch.
CloseOrder ==
    [][ (closes' = closes + 1 /\ flatfile.w.fileobj.open) =>
            /\ close_exc' = ""
            /\ Len(flatfile'.d.log) > Len(flatfile.d.log)
            /\ SubSeq(flatfile'.d.log, 1, Len(flatfile.d.log)) = flatfile.d.log
            /\ CallsIn(SubSeq(flatfile'.d.log, Len(flatfile.d.log) + 1, Len(flatfile'.d.log)))
                   = (IF flatfile.w.record_buffer # <<>> THEN <<"stream.write">> ELSE <<>>)
                         \o <<"fsync", "stream.close">>
            /\ flatfile'.w.record_buffer = <<>>
            /\ flatfile'.w.fileobj = NoFileobj
            /\ flatfile'.d.data = flatfile.d.data \o flatfile.w.fileobj.held
                                      \o Concat(flatfile.w.record_buffer) ]_vars

\* Three objects were written, two of them in a batch already given to the
\* stream; close() wrote the third, synced and closed.
CloseOrderWitness ==
    /\ closes = 1
    /\ close_exc = ""
    /\ Len(written) = 3
    /\ ~flatfile.w.fileobj.open
    /\ CallsIn(flatfile.d.log) = <<"stream.write", "stream.write", "fsync", "stream.close">>

\* The records of the objects written, and the bytes given to the stream.
RecordsWritten == [i \in DOMAIN written |-> RORP2Record(written[i])]
StreamBytes == flatfile.d.data \o flatfile.w.fileobj.held
FullBatches == Len(written) \div max_buffer_size

\* C16: after every write_record the batch holds fewer records than the
\* batch size: the records written since the last full batch; one stream
\* write was made per full batch, and the bytes given to the stream are
\* the records of the full batches, whole and in order.  After close()
\* the bytes given to the stream are all the records written.
BatchedWrites ==
    IF flatfile.w.fileobj.open
    THEN /\ Len(flatfile.w.record_buffer) < max_buffer_size
         /\ flatfile.w.record_buffer =
                SubSeq(RecordsWritten, FullBatches * max_buffer_size + 1, Len(written))
         /\ CallsIn(flatfile.d.log) = [i \in 1..FullBatches |-> "stream.write"]
         /\ StreamBytes = Concat(SubSeq(RecordsWritten, 1, FullBatches * max_buffer_size))
    ELSE /\ flatfile.w.record_buffer = <<>>
         /\ StreamBytes = Concat(RecordsWritten)

\* Five objects were written: two full batches went to the stream, each in
\* one write, and the batch holds the fifth.
BatchedWritesWitness ==
    /\ flatfile.w.fileobj.open
    /\ Len(written) = 5
    /\ FullBatches = 2
    /\ Len(flatfile.w.record_buffer) = 1
    /\ CallsIn(flatfile.d.log) = <<"stream.write", "stream.write">>

(***************************************************************************)
(* Specification of the iteration of a truncated log: the writer of a log  *)
(* was killed when the first bytes of the log had reached the file, up to  *)
(* any byte; the file is iterated in full.                                 *)
(***************************************************************************)
\* The ascending sequences of up to MaxRecords of the model's objects.
AscendingLogs ==
    {objs \in SeqsUpTo(Range(LogObjects), MaxRecords) :
        \A i \in 1..(Len(objs) - 1) : IndexLess(objs[i].index, objs[i + 1].index)}

\* The bytes of the log of a sequence of objects.
LogBytes(objs) == Concat([i \in DOMAIN objs |-> RORP2Record(objs[i])])

TruncInit ==
    /\ preserve_hardlinks = TRUE
    /\ written \in AscendingLogs
    /\ \E cut \in 0..Len(LogBytes(written)) :
           flatfile = [w |-> NoFlatFile.w,
                       d |-> [data |-> SubSeq(LogBytes(written), 1, cut), log |-> <<>>]]
    /\ extractor = NoExtractor
    /\ gen = NoGen
    /\ yielded = <<>>
    /\ QuoteIdle
    /\ CodecIdle
    /\ PatchIdle
    /\ ManagerIdle
    /\ LookupIdle
    /\ CloseIdle
    /\ ParseIdle

TruncNext ==
    \/ \E bs \in BlockSizes : GetObjects(NoneIndex, bs)
    \/ IterNext

SpecTruncate == TruncInit /\ [][TruncNext]_vars

\* C14: the full iteration of a log cut at any byte does not raise, and
\* the objects it yields are the first objects of the log that was being
\* written, as they are read from the whole log: the cut record is not
\* yielded with another index or other values, and no record before it is
\* lost or changed.
TruncationTolerance ==
    /\ gen.pc # "raised"
    /\ IsPrefixOf(yielded, AllAsRead(written))

(***************************************************************************)
(* Specification of the iteration of a log with bad records: some records  *)
(* of the log carry a line with a field Record2RORP does not know, for     *)
(* which it raises ParsingError.                                           *)
(***************************************************************************)
\* A line with an unknown field.
BadLine == Chars("  Bogus 1") \o <<LF>>

\* The records of a log of objects, those at the places of bad made bad.
EntryRecord(objs, bad, i) ==
    RORP2Record(objs[i]) \o (IF i \in bad THEN BadLine ELSE <<>>)
EntryBytes(objs, bad) == Concat([i \in DOMAIN objs |-> EntryRecord(objs, bad, i)])

\* The restrict indexes and block sizes of the iterations of these logs.
ParseRestricts == {NoneIndex, <<Chars("a")>>, <<Chars("c")>>}
ParseBlockSizes == {7, blocksize}

ParseInit ==
    /\ preserve_hardlinks = TRUE
    /\ written \in AscendingLogs
    /\ bad_records \in SUBSET DOMAIN written
    /\ flatfile = [w |-> NoFlatFile.w,
                   d |-> [data |-> EntryBytes(written, bad_records), log |-> <<>>]]
    /\ extractor = NoExtractor
    /\ gen = NoGen
    /\ yielded = <<>>
    /\ QuoteIdle
    /\ CodecIdle
    /\ PatchIdle
    /\ ManagerIdle
    /\ LookupIdle
    /\ CloseIdle

ParseNext ==
    \/ \E r \in ParseRestricts, bs \in ParseBlockSizes : GetObjects(r, bs)
    \/ IterNext

SpecParse == ParseInit /\ [][ParseNext]_vars

\* C17: when an iteration has ended, the stream it read is closed.
StreamClosedAtEnd ==
    gen.pc = "done" => extractor.file.closed

\* The objects of the good records of the log, as they are read.
GoodPlaces == SelectSeq([i \in DOMAIN written |-> i], LAMBDA i : i \notin bad_records)
GoodObjects == [k \in DOMAIN GoodPlaces |-> AsRead(written[GoodPlaces[k]])]

\* C18: the full iteration of a log that is not empty does not raise for
\* the records that raise ParsingError: such a record before the end of the
\* stream is skipped and every good record after it is yielded, in order;
\* when it is the last record the iteration ends without yielding it.  So
\* the objects yielded are always the first good objects of the log, and
\* all of them when the iteration has ended.
ParseErrorPolicy ==
    (gen.kind = "iterate" /\ written # <<>>) =>
        /\ gen.pc # "raised"
        /\ IsPrefixOf(yielded, GoodObjects)
        /\ gen.pc = "done" => yielded = GoodObjects

\* The first and the last of three records were bad: the iteration yielded
\* the second and ended.
ParseErrorPolicyWitness ==
    /\ gen.kind = "iterate"
    /\ gen.pc = "done"
    /\ Len(written) = 3
    /\ bad_records = {1, 3}
    /\ yielded = <<AsRead(written[2])>>

\* The length of the longest record of the log, and the lengths of the
\* buffers the passes of skip_to_index over the whole log set.
MaxRecordLen == Max({0} \cup {Len(RORP2Record(written[i])) : i \in DOMAIN written})
SkipEnds == block_ends(flatfile.d.data, 0, extractor.blocksize, TRUE)
SkipBufferLens ==
    {SkipEnds[k] - (IF k = 1 THEN 0 ELSE SkipEnds[k - 1]) : k \in DOMAIN SkipEnds}

\* C19: during a full or a prefix-restricted iteration the buffer of the
\* extractor is never longer than one block and twice the longest record
\* of the log, however many records the log holds; the buffers that
\* skip_to_index sets are a block and a line at most.
BoundedBuffer ==
    /\ Len(extractor.buf) <= extractor.blocksize + 2 * MaxRecordLen
    /\ (gen.kind = "iterate_starting_with" /\ gen.pc # "start") =>
           \A len \in SkipBufferLens : len <= extractor.blocksize + MaxRecordLen

\* With blocks of 7 bytes and three records in the log, the buffer holds
\* more than a block and a record when an object is yielded.
BoundedBufferWitness ==
    /\ extractor.blocksize = 7
    /\ Len(written) = 3
    /\ gen.pc = "yielded"
    /\ Len(extractor.buf) > extractor.blocksize + MaxRecordLen
    /\ Len(extractor.buf) < Len(flatfile.d.data)

\* The places in the order of CombinedWriter.close of the writers cw holds,
\* and of those of them that are closed already.
PresentIn(cw) == {i \in DOMAIN CloseOrderOf : cw[CloseOrderOf[i]].some}
StaleIn(cw) == {i \in PresentIn(cw) : ~cw[CloseOrderOf[i]].w.fileobj.open}
ClosedBy(cw, dir, i) ==
    /\ ~cw[CloseOrderOf[i]].w.fileobj.open
    /\ dir[cw[CloseOrderOf[i]].rp].log[Len(dir[cw[CloseOrderOf[i]].rp].log)] = "close"

\* C20: CombinedWriter.close() closes the metadata writer, then the EA
\* writer if there is one, then the ACL writer if there is one.  It returns
\* normally exactly when the close of every writer it holds succeeds, and
\* every such writer is closed then; when the close of a writer fails the
\* call fails with that exception, the writers before it in the order are
\* closed and the writers after it are left as they were.
CloseAll ==
    [][ (closes' = closes + 1 /\ writer.kind = "CombinedWriter") =>
           /\ close_exc' = "" <=> StaleIn(writer) = {}
           /\ close_exc' \in {"", "AssertionError"}
           /\ close_exc' = "" =>
                  \A i \in PresentIn(writer) : ClosedBy(writer', rbdir', i)
           /\ \A k \in StaleIn(writer) :
                  (\A j \in StaleIn(writer) : k <= j) =>
                      \A i \in PresentIn(writer) :
                          /\ i < k => ClosedBy(writer', rbdir', i)
                          /\ i > k =>
                                 /\ writer'[CloseOrderOf[i]] = writer[CloseOrderOf[i]]
                                 /\ rbdir'[writer[CloseOrderOf[i]].rp]
                                        = rbdir[writer[CloseOrderOf[i]].rp]
      ]_vars

\* A close of a CombinedWriter of three writers has failed on the EA
\* writer, closed before: the metadata writer is closed and the ACL writer
\* is open; and a close of three open writers returns.
CloseAllWitness ==
    /\ writer.kind = "CombinedWriter"
    /\ wpc = "failed"
    /\ closes = 1
    /\ close_exc = "AssertionError"
    /\ PresentIn(writer) = {1, 2, 3}
    /\ ~writer.metawriter.w.fileobj.open
    /\ writer.aclwriter.w.fileobj.open
    /\ submitted # <<>>

\* The files of a time in the map of a Manager that have a base prefix.
LogsOf(self, time, prefix) ==
    IF ~Has(self.timerpmap, time) THEN {}
    ELSE {self.timerpmap[time][i] : i \in
             {j \in DOMAIN self.timerpmap[time] :
                 getincbase_str(self.timerpmap[time][j]) = Chars(prefix)}}

\* C21: get_meta_at_time, get_eas_at_time and get_acls_at_time return None
\* exactly when the Manager's map has no entry for the time or no file of
\* the entry has the base prefix of the lookup; otherwise they return the
\* iterator of a file of the entry with that prefix, which FlatFile opens
\* for reading without an exception; and a lookup creates and changes no
\* file of the directory.
LookupByPrefix ==
    [][ /\ lookup'.op \in LookupOps =>
              /\ ~found'.some <=>
                     \/ ~Has(manager'.timerpmap, lookup'.time)
                     \/ \A i \in DOMAIN manager'.timerpmap[lookup'.time] :
                            getincbase_str(manager'.timerpmap[lookup'.time][i])
                                # Chars(LookupPrefix(lookup'.op))
              /\ found'.some =>
                     /\ found'.meta \in LogsOf(manager', lookup'.time, LookupPrefix(lookup'.op))
                     /\ found'.acl = NotJoined /\ found'.ea = NotJoined
                     /\ flatfile_read(rbdir', found'.meta, LookupPrefix(lookup'.op)).exc = ""
        /\ (lookup' # lookup /\ lookup'.op \in LookupOps) => rbdir' = rbdir
      ]_vars

\* get_eas_at_time found the EA log of the earlier session, in a directory
\* that holds a log of the current session and no EA log of it.
LookupByPrefixWitness ==
    /\ lookup = [op |-> "get_eas_at_time", time |-> Chars(prevtimestr)]
    /\ found.some
    /\ found.meta = writer_filename(ea_prefix, prevtimestr, "snapshot")
    /\ Cardinality(TimeGroup(Chars(prevtimestr))) = 3
    /\ Has(manager.timerpmap, Chars(curtimestr))
    /\ LogsOf(manager, Chars(curtimestr), ea_prefix) = {}

\* The places of a record where a line starts: 0 and the place after each
\* LF but the last character; a record is well bounded when it ends with an
\* LF, its first line starts with "File " and each other line with two
\* spaces (so that no other line starts with "File ").
LineStarts(rec) == {0} \cup {i \in 1..(Len(rec) - 1) : rec[i] = LF}
WellBounded(rec) ==
    /\ rec # <<>> /\ rec[Len(rec)] = LF
    /\ {i \in LineStarts(rec) : IsAt(rec, i, Chars("File "))} = {0}
    /\ \A i \in LineStarts(rec) \ {0} : IsAt(rec, i, <<" ", " ">>)

\* C22: every record RORP2Record makes of a written object, also of one
\* whose index or symlink target holds an LF followed by "File ", has one
\* line that starts with "File ", its first, and its other lines start
\* with two spaces; and the full iteration of a log of one record or more
\* cuts the stream at each step into the next record that was written, the
\* k-th record it takes being the record of the k-th object, and ends
\* after the last.
RecordBoundary ==
    /\ \A i \in DOMAIN written : WellBounded(RORP2Record(written[i]))
    /\ (gen.kind = "iterate" /\ written # <<>>) =>
           /\ gen.pc # "raised"
           /\ Len(yielded) <= Len(written)
           /\ gen.pc = "yielded" =>
                  SubSeq(extractor.buf, 1, gen.next_pos)
                      = RORP2Record(written[Len(yielded)])
           /\ gen.pc = "done" => Len(yielded) = Len(written)

\* A log of three records, the first of a symlink to LF "File b" and the
\* last of a path named b LF "File c", was iterated to its end in blocks
\* of 7 bytes.
RecordBoundaryWitness ==
    /\ gen.kind = "iterate" /\ gen.pc = "done"
    /\ extractor.blocksize = 7
    /\ Len(written) = 3 /\ Len(yielded) = 3
    /\ written[1] = LogObjects[3]
    /\ written[3] = LogObjects[5]

(***************************************************************************)
(* Specification of patch on the tuples of any producer: the tuples that   *)
(* CollateIterators hands to the loop of patch are those of the iterators, *)
(* or those and, for indexes no iterator holds, tuples whose slots are all *)
(* absent.                                                                 *)
(***************************************************************************)
\* The tuples of a producer that makes a tuple for each index of indexes.
TuplesFor(iters, indexes) ==
    LET sorted == SortIndexes(indexes)
    IN  [n \in DOMAIN sorted |-> [i \in DOMAIN iters |-> AtIndex(iters[i], sorted[n])]]

\* The indexes the iterators hold.
HeldIndexes(iters) ==
    UNION {{iters[i][k].index : k \in DOMAIN iters[i]} : i \in DOMAIN iters}

CollatedInit ==
    /\ \E n \in 1..MaxIters :
         \E have \in [1..n -> [PatchIndexes -> {"absent", "live", "dead"}]] :
            meta_iters = [i \in 1..n |-> PatchIter(have[i], i)]
    /\ \E indexes \in SUBSET PatchIndexes :
           /\ HeldIndexes(meta_iters) \subseteq indexes
           /\ collated = TuplesFor(meta_iters, indexes)
    /\ patched = <<>>
    /\ ppc = "collated"
    /\ preserve_hardlinks = TRUE
    /\ QuoteIdle
    /\ CodecIdle
    /\ LogIdle
    /\ ManagerIdle
    /\ LookupIdle
    /\ CloseIdle
    /\ ParseIdle

\* next() on patch, the tuples of the producer left being collated.
PatchTuple ==
    /\ ppc \in {"collated", "yielded"}
    /\ \E out \in {patch_next(collated)} :
           /\ collated' = out.rest
           /\ patched' = IF out.how = "yield" THEN Append(patched, out.obj) ELSE patched
           /\ ppc' = IF out.how = "yield" THEN "yielded"
                     ELSE IF out.how = "stop" THEN "done" ELSE "raised"
    /\ UNCHANGED <<meta_iters, preserve_hardlinks, quote_vars, codec_vars, log_vars, manager_vars, lookup_vars, close_vars, bad_records>>

CollatedNext == PatchTuple

SpecCollated == CollatedInit /\ [][CollatedNext]_vars

AllAbsent(meta_tuple) == \A i \in DOMAIN meta_tuple : meta_tuple[i] = NoRorp

\* The records yielded are input records of their index with a type, in
\* ascending order of index, so one at most for an index.
PatchShape(out) ==
    /\ \A k \in DOMAIN out :
           /\ \E i \in DOMAIN meta_iters : AtIndex(meta_iters[i], out[k].index) = out[k]
           /\ lstat(out[k])
    /\ \A j, k \in DOMAIN out : j < k => IndexLess(out[j].index, out[k].index)

\* C24: on iterators in the same order of index, patch yields one record
\* at most for an index, in the order of the collation, and each record it
\* yields is an input record of that index whose type is not None; it
\* takes the tuples in order, and a next() ends with the assertion
\* "No valid rorps", yielding nothing, exactly when it comes to a tuple
\* whose slots are all absent.
PatchOutput ==
    [][ LET n == Len(collated) - Len(collated')
            taken == SubSeq(collated, 1, n)
        IN  /\ PatchShape(patched')
            /\ collated' = SubSeq(collated, n + 1, Len(collated))
            /\ \A k \in 1..(n - 1) : ~AllAbsent(taken[k])
            /\ ppc' = "raised" <=> (n >= 1 /\ AllAbsent(taken[n]))
            /\ ppc' = "raised" => patched' = patched
            /\ ppc' = "yielded" =>
                   /\ n >= 1
                   /\ patched' = Append(patched, patched'[Len(patched')])
                   /\ \E i \in DOMAIN taken[n] : taken[n][i] = patched'[Len(patched')]
            /\ ppc' = "done" => (collated' = <<>> /\ patched' = patched)
      ]_vars

\* patch has yielded the record of a and failed the assertion on the
\* tuple of x, which no iterator of three holds.
PatchOutputWitness ==
    /\ ppc = "raised"
    /\ Len(meta_iters) = 3
    /\ Len(patched) = 1 /\ patched[1].index = <<Chars("a")>>
    /\ Holders(<<Chars("a")>>) = {1, 3}
    /\ Holders(<<Chars("x")>>) = {}
    /\ collated = <<>>

====
